---------------------------- MODULE Spec2Model ----------------------------
(***************************************************************************)
(* Model of the CFL fantasy lineup optimizer                               *)
(* (src/optimizer/custom_cfl_optimizer.py, class CustomCFLOptimizer).      *)
(*                                                                         *)
(* Units.  Salaries are dollars.  Projected points are integers counting   *)
(* thousandths of a fantasy point, so that round(x, 2) is a real           *)
(* operation (Round2) and not the identity.                                *)
(*                                                                         *)
(* Identifiers.  A player id is a positive integer.  The DEF option the    *)
(* solver builds for a team has the id "DEF_<team id>", a string that no   *)
(* player id can equal; DefId maps the team id to the negative integers,   *)
(* which is the same injection into a namespace disjoint from player ids.  *)
(*                                                                         *)
(* The integer program is solved by CBC through PuLP.  Its contract is     *)
(* modelled: status Optimal and any one maximiser of the objective over    *)
(* the 0/1 assignments that satisfy the constraints the code adds, or a    *)
(* status other than Optimal when no assignment satisfies them.            *)
(***************************************************************************)
EXTENDS Integers, Sequences, FiniteSets, TLC

---------------------------------------------------------------------------
(* Bounds of the model *)

\* projected points of a candidate are PtsStep * k, k in 0..MaxPts
MaxPts == 2
\* the locked players of a pool are at most MaxLocked players, or all
\* players but at most one
MaxLocked == 2

---------------------------------------------------------------------------
(* Program constants *)

\* CustomCFLOptimizer.__init__: self.salary_cap = 70000
SalaryCap == 70000
\* roster size hard-coded in the solver ("== 7", "7 - len(selected_players)")
RosterSize == 7
\* the flex group total hard-coded in _generate_lineup_standard ("== 5")
FlexTotal == 5
\* self.flex_positions
flex_positions == {"WR", "RB", "TE"}
\* self.position_requirements
position_requirements ==
    ("QB" :> 1) @@ ("WR" :> 2) @@ ("RB" :> 2) @@ ("FLEX" :> 1) @@ ("DEF" :> 1)

---------------------------------------------------------------------------
(* Input domain: the feed records a pool is loaded from *)

\* Projected points come in steps of 1.004 points.  Sums of multiples of
\* 1004 never end in the digit 5, so round(x, 2) meets no half-way case.
PointsOfLevel(k) == 1004 * k
\* a "dear" candidate costs 35000 more than its listed cost
CostOf(cost, dear) == IF dear THEN cost + 35000 ELSE cost

\* the players of the feed, in feed order, and the teams
PlayerFeed == <<
    [id |-> 1, position |-> "QB", team |-> "A", cost |-> 8000],
    [id |-> 2, position |-> "WR", team |-> "A", cost |-> 5000],
    [id |-> 3, position |-> "RB", team |-> "A", cost |-> 5000],
    [id |-> 4, position |-> "quarterback", team |-> "B", cost |-> 5000],
    [id |-> 5, position |-> "WR", team |-> "B", cost |-> 7000],
    [id |-> 6, position |-> "tight_end", team |-> "B", cost |-> 5000],
    [id |-> 7, position |-> "WR", team |-> "C", cost |-> 5000],
    [id |-> 8, position |-> "RB", team |-> "C", cost |-> 5000] >>

TeamFeed == <<
    [id |-> 1, abbreviation |-> "A", cost |-> 5000],
    [id |-> 2, abbreviation |-> "C", cost |-> 9000] >>

PlayerIds == {PlayerFeed[k].id : k \in DOMAIN PlayerFeed}
TeamIds == {TeamFeed[k].id : k \in DOMAIN TeamFeed}

DefId(team_id) == 0 - team_id

CandidateIds == PlayerIds \cup {DefId(t) : t \in TeamIds}

---------------------------------------------------------------------------
(* Arithmetic helpers *)

\* round(x, 2) on thousandths, x >= 0
Round2(x) == ((x + 5) \div 10) * 10

Max0(x) == IF x > 0 THEN x ELSE 0

RECURSIVE SumSalary(_, _, _)
\* sum of option['salary'] over the options of opts[1..n] whose index is in S
SumSalary(opts, S, n) ==
    IF n = 0 THEN 0
    ELSE SumSalary(opts, S, n - 1) + (IF n \in S THEN opts[n].salary ELSE 0)

RECURSIVE SumPoints(_, _, _)
\* sum of option['projected_points'] over the selected options of opts[1..n]
SumPoints(opts, S, n) ==
    IF n = 0 THEN 0
    ELSE SumPoints(opts, S, n - 1)
         + (IF n \in S THEN opts[n].projected_points ELSE 0)

\* number of selected options with a position in P
CountPos(opts, S, P) == Cardinality({k \in S : opts[k].position \in P})
\* number of selected options of one team
CountTeam(opts, S, t) == Cardinality({k \in S : opts[k].team = t})

RECURSIVE PickSeq(_, _, _)
\* the selected options of opts[1..n], in index order
PickSeq(opts, S, n) ==
    IF n = 0 THEN << >>
    ELSE IF n \in S THEN Append(PickSeq(opts, S, n - 1), opts[n])
         ELSE PickSeq(opts, S, n - 1)

---------------------------------------------------------------------------
(* State *)

VARIABLES
    players,            \* self.players
    teams,              \* self.teams
    locked_players,     \* self.locked_players
    available_players,  \* self.available_players
    pc,                 \* position inside generate_lineup
    use_captain,        \* argument of generate_lineup
    max_players_from_team, \* argument of generate_lineup
    captain_candidates, \* local of _generate_lineup_with_captain
    ci,                 \* index of the captain candidate under test
    original_players,   \* the backup of self.players during a sub-solve
    best_lineup,        \* local of _generate_lineup_with_captain
    best_total_points,  \* local of _generate_lineup_with_captain
    best_captain,       \* local of _generate_lineup_with_captain
    result,             \* the CFLLineup returned, or NoLineup
    outcome,            \* "none", "lineup", "Infeasible" (exception raised)
                        \* or "bad_request" (status 400)
    request,            \* the body of the /optimize request served:
                        \* its players and its teams
    caller,             \* position inside generate_multiple_lineups
    count,              \* argument of generate_multiple_lineups
    lineups,            \* local of generate_multiple_lineups
    used_players,       \* local of generate_multiple_lineups
    data_type,          \* projections.py: "players" or "teams"
    data_json,          \* projections.py: the list of items
    projection_map,     \* projections.py: the map being built
    item_no,            \* projections.py: the index of the item at hand
    pydfs_pc,           \* cfl_pydfs_optimizer.py: position inside
                        \* optimize_from_request
    all_players,        \* self.optimizer.player_pool.all_players
    candidates,         \* local of get_best_lineup
    captain_no,         \* the index of the candidate at hand (i + 1)
    original_fppg,      \* local of get_best_lineup
    best_points,        \* local of get_best_lineup
    best_captain_id,    \* local of get_best_lineup
    pydfs_lineup,       \* best_lineup of get_best_lineup
    response,           \* what optimize_from_request returns
    greedy_pc,          \* cfl_pydfs_optimizer_simple_backup.py: position
                        \* inside optimize_from_request
    greedy_players,     \* self.players
    greedy_teams,       \* self.teams
    sorted_players,     \* local of get_best_lineup
    player_no,          \* the index in sorted_players of the player at hand
    greedy_lineup,      \* lineup of get_best_lineup
    greedy_total_salary, \* total_salary of get_best_lineup
    greedy_captain_id,  \* best_captain_id of get_best_lineup
    greedy_response     \* what optimize_from_request returns

pool == <<players, teams, locked_players, available_players>>
search == <<captain_candidates, ci, original_players, best_lineup,
            best_total_points, best_captain>>
\* the state of CustomCFLOptimizer
custom == <<pool, pc, use_captain, max_players_from_team, search, result,
            outcome>>
\* the state of generate_lineup and of the server around it
optimizer == <<pool, pc, use_captain, max_players_from_team, search, result,
               outcome, request>>
multiple == <<caller, count, lineups, used_players>>
projections == <<data_type, data_json, projection_map, item_no>>
\* the state of the components other than generate_lineup and the server
pydfs == <<pydfs_pc, all_players, candidates, captain_no, original_fppg,
           best_points, best_captain_id, pydfs_lineup, response>>
greedy == <<greedy_pc, greedy_players, greedy_teams, sorted_players,
            player_no, greedy_lineup, greedy_total_salary,
            greedy_captain_id, greedy_response>>
side == <<multiple, projections, pydfs, greedy>>
vars == <<pool, pc, use_captain, max_players_from_team, search, result,
          outcome, request, side>>

\* no call of generate_multiple_lineups is under way
MultipleIdle ==
    /\ caller = "none"
    /\ count = 0
    /\ lineups = << >>
    /\ used_players = {}
\* no call of the projections module is under way
ProjectionsIdle ==
    /\ data_type = ""
    /\ data_json = << >>
    /\ projection_map = << >>
    /\ item_no = 0
\* CFLPydfsOptimizer(): nothing loaded, nothing asked
PydfsIdle ==
    /\ pydfs_pc = "idle"
    /\ all_players = << >>
    /\ candidates = << >>
    /\ captain_no = 0
    /\ original_fppg = 0
    /\ best_points = 0 - 1
    /\ best_captain_id = 0
    /\ pydfs_lineup = << >>
    /\ response = [kind |-> "none"]
\* the greedy CFLPydfsOptimizer(): nothing loaded, nothing asked
GreedyIdle ==
    /\ greedy_pc = "idle"
    /\ greedy_players = << >>
    /\ greedy_teams = << >>
    /\ sorted_players = << >>
    /\ player_no = 0
    /\ greedy_lineup = << >>
    /\ greedy_total_salary = 0
    /\ greedy_captain_id = 0
    /\ greedy_response = [kind |-> "none"]
SideIdle == MultipleIdle /\ ProjectionsIdle /\ PydfsIdle /\ GreedyIdle

\* Python's None for a lineup and for a captain
NoLineup == [players |-> << >>, total_salary |-> 0, projected_points |-> 0,
             remaining_cap |-> 0, salary_cap |-> 0, is_valid |-> FALSE,
             captain_id |-> 0, captain_bonus_points |-> 0]
NoPlayer == [id |-> 0, position |-> "", team |-> "", salary |-> 0,
             projected_points |-> 0, is_captain |-> FALSE,
             is_locked |-> FALSE, is_current_lineup |-> FALSE,
             shared |-> FALSE]

\* an optimizer nothing was loaded into and nothing was asked of
EmptyOptimizer ==
    /\ players = << >>
    /\ teams = << >>
    /\ locked_players = << >>
    /\ available_players = << >>
    /\ request = [players |-> << >>, teams |-> << >>]
    /\ pc = "idle"
    /\ use_captain = FALSE
    /\ max_players_from_team = 0
    /\ captain_candidates = << >>
    /\ ci = 0
    /\ original_players = << >>
    /\ best_lineup = NoLineup
    /\ best_total_points = 0
    /\ best_captain = NoPlayer
    /\ result = NoLineup
    /\ outcome = "none"

---------------------------------------------------------------------------
(* The integer program: prob.solve(pulp.PULP_CBC_CMD(msg=0)) *)

\* the largest element of a non-empty set of integers
BestOf(V) == CHOOSE b \in V : \A v \in V : v <= b

\* Maximisers with the sense of the problem reversed (LpMinimize)
Maximisers_Minimise(opts, F) ==
    IF F = {} THEN {}
    ELSE {S \in F : \A T \in F :
            SumPoints(opts, S, Len(opts)) <= SumPoints(opts, T, Len(opts))}

\* The assignments CBC may report with status Optimal: the feasible
\* assignments F that maximise the objective, the sum of the selected
\* options' projected points.  Empty when F is empty (status Infeasible).
Maximisers(opts, F) ==
    IF F = {} THEN {}
    ELSE UNION {{S \in F : SumPoints(opts, S, Len(opts)) = best} :
                best \in {BestOf({SumPoints(opts, S, Len(opts)) : S \in F})}}

---------------------------------------------------------------------------
(* _generate_lineup_standard *)

\* all_options: the players, then the teams as DEF options
PlayerOption(p) ==
    [id |-> p.id, position |-> p.position, team |-> p.team,
     salary |-> p.salary, projected_points |-> p.projected_points]
TeamOption(t) ==
    [id |-> DefId(t.id), position |-> "DEF", team |-> t.abbreviation,
     salary |-> t.salary, projected_points |-> t.projected_points]
\* AllOptions without the teams
AllOptions_PlayersOnly(ps, ts) ==
    [k \in 1..Len(ps) |-> PlayerOption(ps[k])]

AllOptions(ps, ts) ==
    [k \in 1..Len(ps) |-> PlayerOption(ps[k])]
    \o [k \in 1..Len(ts) |-> TeamOption(ts[k])]

\* StandardConstraints without the loop over the teams
StandardConstraints_NoTeamLimit(opts, S, maxTeam) ==
    /\ Cardinality(S) = RosterSize
    /\ CountPos(opts, S, {"QB"}) = 1
    /\ CountPos(opts, S, {"DEF"}) = 1
    /\ CountPos(opts, S, flex_positions) = FlexTotal
    /\ CountPos(opts, S, {"WR"}) >= 2
    /\ CountPos(opts, S, {"RB"}) >= 2
    /\ SumSalary(opts, S, Len(opts)) <= SalaryCap

\* StandardConstraints without the constraint on the number of QBs
StandardConstraints_NoQB(opts, S, maxTeam) ==
    /\ Cardinality(S) = RosterSize
    /\ CountPos(opts, S, {"DEF"}) = 1
    /\ CountPos(opts, S, flex_positions) = FlexTotal
    /\ CountPos(opts, S, {"WR"}) >= 2
    /\ CountPos(opts, S, {"RB"}) >= 2
    /\ SumSalary(opts, S, Len(opts)) <= SalaryCap
    /\ \A t \in {opts[k].team : k \in DOMAIN opts} :
           CountTeam(opts, S, t) <= maxTeam

\* the constraints added to the problem "CFL_Fantasy_Lineup"
StandardConstraints(opts, S, maxTeam) ==
    /\ Cardinality(S) = RosterSize
    /\ CountPos(opts, S, {"QB"}) = 1
    /\ CountPos(opts, S, {"DEF"}) = 1
    /\ CountPos(opts, S, flex_positions) = FlexTotal
    /\ CountPos(opts, S, {"WR"}) >= 2
    /\ CountPos(opts, S, {"RB"}) >= 2
    /\ SumSalary(opts, S, Len(opts)) <= SalaryCap
    /\ \A t \in {opts[k].team : k \in DOMAIN opts} :
           CountTeam(opts, S, t) <= maxTeam

StandardFeasible(opts, maxTeam) ==
    {S \in SUBSET (DOMAIN opts) : StandardConstraints(opts, S, maxTeam)}

StandardSolutions(opts, maxTeam) ==
    UNION {Maximisers(opts, F) : F \in {StandardFeasible(opts, maxTeam)}}

\* CFLPlayer(id=..., ...) built from a selected option: a fresh object
NewPlayer(o) ==
    [id |-> o.id, position |-> o.position, team |-> o.team,
     salary |-> o.salary, projected_points |-> o.projected_points,
     is_captain |-> FALSE, is_locked |-> FALSE,
     is_current_lineup |-> FALSE, shared |-> FALSE]

NewPlayers(opts, S) ==
    [k \in 1..Cardinality(S) |-> NewPlayer(PickSeq(opts, S, Len(opts))[k])]

\* the CFLLineup built from the selected options
StandardLineup(opts, S) ==
    LET total_salary == SumSalary(opts, S, Len(opts))
        selected_players == NewPlayers(opts, S)
    IN  [players |-> selected_players,
         total_salary |-> total_salary,
         projected_points |-> Round2(SumPoints(opts, S, Len(opts))),
         remaining_cap |-> SalaryCap - total_salary,
         salary_cap |-> SalaryCap,
         is_valid |-> (total_salary <= SalaryCap
                       /\ Len(selected_players) = RosterSize),
         captain_id |-> 0,
         captain_bonus_points |-> 0]

\* What one run can do: the solve it performed and a lineup it may return;
\* failed when no assignment is feasible and the status check raises.
StandardRunsOn(opts, sols) ==
    IF sols = {}
    THEN {[path |-> "standard", failed |-> TRUE, lineup |-> NoLineup]}
    ELSE {[path |-> "standard", failed |-> FALSE,
           lineup |-> StandardLineup(opts, S)] : S \in sols}

StandardRuns(ps, ts, maxTeam) ==
    UNION {UNION {StandardRunsOn(opts, sols) :
                  sols \in {StandardSolutions(opts, maxTeam)}} :
           opts \in {AllOptions(ps, ts)}}

---------------------------------------------------------------------------
(* _generate_lineup_with_locked_players *)

RECURSIVE SeqSalary(_, _)
\* locked_salary: the sum of player.salary over a list of players
SeqSalary(ps, n) ==
    IF n = 0 THEN 0 ELSE SeqSalary(ps, n - 1) + ps[n].salary

RECURSIVE SeqPoints(_, _)
\* locked_points: the sum of player.projected_points over a list of players
SeqPoints(ps, n) ==
    IF n = 0 THEN 0 ELSE SeqPoints(ps, n - 1) + ps[n].projected_points

\* locked_positions.get(pos, 0) and locked_teams.get(team, 0)
LockedPositions(locked, pos) ==
    Cardinality({k \in DOMAIN locked : locked[k].position = pos})
LockedTeams(locked, team) ==
    Cardinality({k \in DOMAIN locked : locked[k].team = team})

\* remaining_requirements[pos]
RemainingRequirement(locked, pos) ==
    Max0(position_requirements[pos] - LockedPositions(locked, pos))

\* remaining_requirements.get(pos, 0) for a position that may not be a key
RemainingGet(locked, pos) ==
    IF pos \in DOMAIN position_requirements
    THEN RemainingRequirement(locked, pos) ELSE 0

\* total_flex_needed
TotalFlexNeeded(locked) ==
    RemainingGet(locked, "WR") + RemainingGet(locked, "RB")
    + RemainingGet(locked, "TE") + RemainingGet(locked, "FLEX")

\* available_options: the available players that are not locked, then the
\* teams as DEF options when a DEF is still needed
AvailableOptions(locked, avail, ts) ==
    LET locked_player_ids == {locked[k].id : k \in DOMAIN locked}
        free == SelectSeq(avail, LAMBDA p : p.id \notin locked_player_ids)
        defs == SelectSeq(ts, LAMBDA t : DefId(t.id) \notin locked_player_ids)
    IN  [k \in 1..Len(free) |-> PlayerOption(free[k])]
        \o (IF RemainingGet(locked, "DEF") > 0
            THEN [k \in 1..Len(defs) |-> TeamOption(defs[k])]
            ELSE << >>)

\* ResidualConstraints with the salary of the locked players left out of
\* the budget
ResidualConstraints_WholeCap(opts, S, locked, maxTeam) ==
    /\ Cardinality(S) = RosterSize - Len(locked)
    /\ \A pos \in DOMAIN position_requirements \ {"FLEX"} :
           RemainingRequirement(locked, pos) > 0
           => CountPos(opts, S, {pos}) = RemainingRequirement(locked, pos)
    /\ TotalFlexNeeded(locked) > 0
       => /\ CountPos(opts, S, flex_positions) = TotalFlexNeeded(locked)
          /\ LockedPositions(locked, "WR") < 2
             => CountPos(opts, S, {"WR"}) >= 2 - LockedPositions(locked, "WR")
          /\ LockedPositions(locked, "RB") < 2
             => CountPos(opts, S, {"RB"}) >= 2 - LockedPositions(locked, "RB")
    /\ SumSalary(opts, S, Len(opts))
           <= SalaryCap
    /\ \A t \in {opts[k].team : k \in DOMAIN opts} :
           CountTeam(opts, S, t) <= Max0(maxTeam - LockedTeams(locked, t))

\* ResidualConstraints without the total of the flex positions
ResidualConstraints_NoFlexTotal(opts, S, locked, maxTeam) ==
    /\ Cardinality(S) = RosterSize - Len(locked)
    /\ \A pos \in DOMAIN position_requirements \ {"FLEX"} :
           RemainingRequirement(locked, pos) > 0
           => CountPos(opts, S, {pos}) = RemainingRequirement(locked, pos)
    /\ SumSalary(opts, S, Len(opts))
           <= SalaryCap - SeqSalary(locked, Len(locked))
    /\ \A t \in {opts[k].team : k \in DOMAIN opts} :
           CountTeam(opts, S, t) <= Max0(maxTeam - LockedTeams(locked, t))

\* the constraints added to the problem "CFL_Fantasy_Remaining"
ResidualConstraints(opts, S, locked, maxTeam) ==
    /\ Cardinality(S) = RosterSize - Len(locked)
    /\ \A pos \in DOMAIN position_requirements \ {"FLEX"} :
           RemainingRequirement(locked, pos) > 0
           => CountPos(opts, S, {pos}) = RemainingRequirement(locked, pos)
    /\ TotalFlexNeeded(locked) > 0
       => /\ CountPos(opts, S, flex_positions) = TotalFlexNeeded(locked)
          /\ LockedPositions(locked, "WR") < 2
             => CountPos(opts, S, {"WR"}) >= 2 - LockedPositions(locked, "WR")
          /\ LockedPositions(locked, "RB") < 2
             => CountPos(opts, S, {"RB"}) >= 2 - LockedPositions(locked, "RB")
    /\ SumSalary(opts, S, Len(opts))
           <= SalaryCap - SeqSalary(locked, Len(locked))
    /\ \A t \in {opts[k].team : k \in DOMAIN opts} :
           CountTeam(opts, S, t) <= Max0(maxTeam - LockedTeams(locked, t))

ResidualFeasible(opts, locked, maxTeam) ==
    {S \in SUBSET (DOMAIN opts) : ResidualConstraints(opts, S, locked, maxTeam)}

ResidualSolutions(opts, locked, maxTeam) ==
    UNION {Maximisers(opts, F) : F \in {ResidualFeasible(opts, locked, maxTeam)}}

\* MergedPlayers without the locked players
MergedPlayers_DropLocked(locked, opts, S) == NewPlayers(opts, S)

\* selected_players: the locked player objects themselves, then a fresh
\* CFLPlayer for every option the solver selected
MergedPlayers(locked, opts, S) == locked \o NewPlayers(opts, S)

\* FullyLockedLineup that is valid whatever it costs
FullyLockedLineup_AlwaysValid(locked) ==
    LET locked_salary == SeqSalary(locked, Len(locked))
    IN  [players |-> locked,
         total_salary |-> locked_salary,
         projected_points |-> Round2(SeqPoints(locked, Len(locked))),
         remaining_cap |-> SalaryCap - locked_salary,
         salary_cap |-> SalaryCap,
         is_valid |-> TRUE,
         captain_id |-> 0,
         captain_bonus_points |-> 0]

\* the CFLLineup returned when the locked players fill the roster
FullyLockedLineup(locked) ==
    LET locked_salary == SeqSalary(locked, Len(locked))
    IN  [players |-> locked,
         total_salary |-> locked_salary,
         projected_points |-> Round2(SeqPoints(locked, Len(locked))),
         remaining_cap |-> SalaryCap - locked_salary,
         salary_cap |-> SalaryCap,
         is_valid |-> (locked_salary <= SalaryCap
                       /\ Len(locked) = RosterSize),
         captain_id |-> 0,
         captain_bonus_points |-> 0]

\* the CFLLineup built from the locked players and the selected options
LockedLineup(locked, opts, S) ==
    LET total_salary == SeqSalary(locked, Len(locked))
                        + SumSalary(opts, S, Len(opts))
        selected_players == MergedPlayers(locked, opts, S)
    IN  [players |-> selected_players,
         total_salary |-> total_salary,
         projected_points |-> Round2(SeqPoints(locked, Len(locked))
                                     + SumPoints(opts, S, Len(opts))),
         remaining_cap |-> SalaryCap - total_salary,
         salary_cap |-> SalaryCap,
         is_valid |-> (total_salary <= SalaryCap
                       /\ Len(selected_players) = RosterSize),
         captain_id |-> 0,
         captain_bonus_points |-> 0]

LockedRunsOn(locked, opts, sols) ==
    IF sols = {}
    THEN {[path |-> "locked", failed |-> TRUE, lineup |-> NoLineup]}
    ELSE {[path |-> "locked", failed |-> FALSE,
           lineup |-> LockedLineup(locked, opts, S)] :
          S \in sols}

\* LockedRuns that solves for the open slots even when there is none
LockedRuns_AlwaysSolve(locked, avail, ts, maxTeam) ==
    UNION {
       IF opts = << >>
       THEN {[path |-> "locked", failed |-> TRUE, lineup |-> NoLineup]}
       ELSE UNION {LockedRunsOn(locked, opts, sols) :
                   sols \in {ResidualSolutions(opts, locked, maxTeam)}}
       : opts \in {AvailableOptions(locked, avail, ts)}}

\* What one run can do.  No solve when the locked players fill the roster
\* (path "full"); an exception when nothing is left to choose from or when
\* no assignment is feasible.
LockedRuns(locked, avail, ts, maxTeam) ==
    IF RosterSize - Len(locked) <= 0
    THEN {[path |-> "full", failed |-> FALSE,
           lineup |-> FullyLockedLineup(locked)]}
    ELSE UNION {
           IF opts = << >>
           THEN {[path |-> "locked", failed |-> TRUE, lineup |-> NoLineup]}
           ELSE UNION {LockedRunsOn(locked, opts, sols) :
                       sols \in {ResidualSolutions(opts, locked, maxTeam)}}
           : opts \in {AvailableOptions(locked, avail, ts)}}

---------------------------------------------------------------------------
(* _generate_lineup_without_captain *)

WithoutCaptainRuns(ps, ts, locked, avail, maxTeam) ==
    IF Len(locked) > 0
    THEN LockedRuns(locked, avail, ts, maxTeam)
    ELSE StandardRuns(ps, ts, maxTeam)

---------------------------------------------------------------------------
(* load_players_from_json / load_teams_from_json *)

\* One feed record as the loader sees it: f is the record, level its
\* projectedScores, dear its price class, isLocked its isLocked flag and
\* current whether its id is in the current lineup.
RawPlayer(f, level, dear, isLocked, current) ==
    [id |-> f.id, position |-> f.position, team |-> f.team,
     cost |-> CostOf(f.cost, dear), projectedScores |-> PointsOfLevel(level),
     isLocked |-> isLocked, is_current_lineup |-> current]

\* position_map of _normalize_position
position_map ==
    ("quarterback" :> "QB") @@ ("wide_receiver" :> "WR")
    @@ ("running_back" :> "RB") @@ ("tight_end" :> "TE")
    @@ ("defense" :> "DEF") @@ ("kicker" :> "K")

\* str.lower() and str.upper() on the position strings of the feed
Lower(position) ==
    CASE position = "QB" -> "qb" [] position = "WR" -> "wr"
      [] position = "RB" -> "rb" [] position = "TE" -> "te"
      [] position = "K" -> "k"   [] OTHER -> position
Upper(position) ==
    CASE position = "quarterback" -> "QUARTERBACK"
      [] position = "tight_end" -> "TIGHT_END"
      [] position = "kicker" -> "KICKER"
      [] position = "qb" -> "QB" [] position = "wr" -> "WR"
      [] position = "rb" -> "RB" [] position = "te" -> "TE"
      [] position = "k" -> "K"   [] OTHER -> position

\* position_map.get(position.lower(), position.upper())
NormalizePosition(position) ==
    IF Lower(position) \in DOMAIN position_map
    THEN position_map[Lower(position)]
    ELSE Upper(position)

\* CFLPlayer(...) built by the loader: an object of the pool
LoadedPlayer(r) ==
    [id |-> r.id, position |-> NormalizePosition(r.position),
     team |-> r.team,
     salary |-> r.cost, projected_points |-> r.projectedScores,
     is_captain |-> FALSE, is_locked |-> r.isLocked,
     is_current_lineup |-> r.is_current_lineup, shared |-> TRUE]

\* records skipped by the loader: locked but not in the current lineup, or
\* without a position or a positive salary
Kept(r) ==
    /\ ~(r.isLocked /\ ~r.is_current_lineup)
    /\ NormalizePosition(r.position) # ""
    /\ r.cost > 0

\* self.players, self.locked_players and self.available_players after
\* load_players_from_json
LoadPlayers(raw) ==
    LET kept == SelectSeq(raw, Kept)
    IN  [k \in 1..Len(kept) |-> LoadedPlayer(kept[k])]
LoadLocked(raw) ==
    SelectSeq(LoadPlayers(raw),
              LAMBDA p : p.is_current_lineup /\ p.is_locked)
\* LoadAvailable that lists every loaded player
LoadAvailable_Everyone(raw) == LoadPlayers(raw)

LoadAvailable(raw) ==
    SelectSeq(LoadPlayers(raw),
              LAMBDA p : ~(p.is_current_lineup /\ p.is_locked)
                         /\ (~p.is_locked \/ p.is_current_lineup))

\* One team record as the loader sees it; isLocked stands for a team that
\* is locked and not in the current lineup
RawTeam(f, level, dear, isLocked) ==
    [id |-> f.id, abbreviation |-> f.abbreviation,
     cost |-> CostOf(f.cost, dear), projectedScores |-> PointsOfLevel(level),
     isLocked |-> isLocked]

\* CFLTeam(...) built by the loader
LoadedTeam(r) ==
    [id |-> r.id, abbreviation |-> r.abbreviation,
     salary |-> r.cost, projected_points |-> r.projectedScores]

\* team records skipped by the loader: locked outside the current lineup,
\* or without a positive salary
KeptTeam(r) == ~r.isLocked /\ r.cost > 0

\* self.teams after load_teams_from_json
LoadTeams(raw) ==
    LET kept == SelectSeq(raw, KeptTeam)
    IN  [k \in 1..Len(kept) |-> LoadedTeam(kept[k])]

---------------------------------------------------------------------------
(* The pools the model starts from *)

\* the ways to give at most two candidates a non-zero level of points
Levels ==
    UNION {[hot -> 1..MaxPts] : hot \in {h \in SUBSET CandidateIds :
                                             Cardinality(h) <= 2}}
LevelOf(lv, id) == IF id \in DOMAIN lv THEN lv[id] ELSE 0

\* the sets of locked players: few, or all but at most one
LockedSets ==
    {L \in SUBSET PlayerIds :
        L # {} /\ (Cardinality(L) <= MaxLocked
                   \/ Cardinality(PlayerIds \ L) <= 1)}

\* A scenario: lv the levels of points, dear the dear candidates, locked
\* the players locked in the current lineup, gone the players locked
\* outside the current lineup.
Scenario(lv, dear, locked, gone) ==
    [lv |-> lv, dear |-> dear, locked |-> locked, gone |-> gone,
     kick |-> {}, free |-> {}, wide |-> {}]

\* a scenario where the players of kick are kickers in the feed and the
\* candidates of free cost nothing
Odd(sc, kick, free) == [sc EXCEPT !.kick = kick, !.free = free]
\* a scenario where the players of wide are wide receivers in the feed
Wide(sc, wide) == [sc EXCEPT !.wide = wide]

\* nobody locked: any levels, at most one of the hot candidates dear
FreeScenarios ==
    UNION {{Scenario(lv, dear, {}, {}) :
            dear \in {d \in SUBSET (DOMAIN lv) : Cardinality(d) <= 1}} :
           lv \in Levels}

\* the levels that make one candidate hot, or two when one player is locked
FlatLevels(L) ==
    {lv \in Levels :
        /\ \A c \in DOMAIN lv : lv[c] = 1
        /\ Cardinality(DOMAIN lv) <= (IF Cardinality(L) = 1 THEN 2 ELSE 1)}

\* some players locked, and either some candidates hot (at level 1), or one
\* or two of the locked players dear, or one other player gone
LockedScenarios ==
    UNION {
        {Scenario(lv, {}, L, {}) : lv \in FlatLevels(L)}
        \cup {Scenario(<< >>, dear, L, {}) :
                dear \in {d \in SUBSET L : Cardinality(d) \in 1..2}}
        \cup {Scenario(<< >>, {}, L, {g}) : g \in PlayerIds \ L}
        : L \in LockedSets}

\* nobody locked and some candidates missing from the pool: no QB, no
\* player, no DEF, no TE, or seven candidates left that make up a roster
ThinGone ==
    {{1, 4}, PlayerIds, {DefId(1), DefId(2)}, {6},
     {4, 6, DefId(1)}, {1, 6, DefId(1)}, {1, 5, DefId(2)}}
ThinScenarios ==
    {Scenario(lv, {}, {}, G) :
        lv \in {<< >>, (2 :> 1), (2 :> 1) @@ (7 :> 2)}, G \in ThinGone}

\* the locked players of the feeds where WR id 5 is a kicker instead
KickLocked == {{1}, {2}, {1, 3}, {5}, {1, 5}}

\* feeds with kickers or candidates that cost nothing; and feeds where
\* both QBs are wide receivers instead, with one player locked or with
\* locked players that fill the roster
OddScenarios ==
    {Odd(Scenario(lv, {}, {}, {}), kf[1], kf[2]) :
        lv \in {<< >>, (5 :> 1)},
        kf \in {<<{5}, {}>>, <<{}, {2}>>, <<{1, 4}, {}>>,
                <<{5}, {DefId(1)}>>}}
    \cup {Wide(Scenario(<< >>, {}, L, {}), {1, 4}) :
            L \in {M \in LockedSets : Cardinality(M) = 1
                                        \/ Cardinality(M) >= 7}}
    \cup {Odd(Scenario(lv, {}, L, {}), {5}, {}) :
            lv \in {<< >>, (5 :> 1)}, L \in KickLocked}

Scenarios ==
    FreeScenarios \cup LockedScenarios \cup ThinScenarios \cup OddScenarios

\* the record of the feed for one player under a scenario
FeedOf(sc, f) ==
    [f EXCEPT !.position = IF f.id \in sc.kick THEN "kicker"
                           ELSE IF f.id \in sc.wide THEN "wide_receiver"
                           ELSE @,
              !.cost = IF f.id \in sc.free THEN 0 ELSE @]

\* players_data and teams_data of a scenario
RawPlayers(sc) ==
    [k \in DOMAIN PlayerFeed |->
        RawPlayer(FeedOf(sc, PlayerFeed[k]),
                  LevelOf(sc.lv, PlayerFeed[k].id),
                  PlayerFeed[k].id \in sc.dear,
                  PlayerFeed[k].id \in sc.locked \cup sc.gone,
                  PlayerFeed[k].id \in sc.locked)]
RawTeams(sc) ==
    [k \in DOMAIN TeamFeed |->
        RawTeam([TeamFeed[k] EXCEPT
                    !.cost = IF DefId(TeamFeed[k].id) \in sc.free
                             THEN 0 ELSE @],
                LevelOf(sc.lv, DefId(TeamFeed[k].id)),
                DefId(TeamFeed[k].id) \in sc.dear,
                DefId(TeamFeed[k].id) \in sc.gone)]

Init ==
    /\ \E sc \in Scenarios :
        /\ players = LoadPlayers(RawPlayers(sc))
        /\ locked_players = LoadLocked(RawPlayers(sc))
        /\ available_players = LoadAvailable(RawPlayers(sc))
        /\ teams = LoadTeams(RawTeams(sc))
        /\ request = [players |-> RawPlayers(sc), teams |-> RawTeams(sc)]
    /\ pc = "idle"
    /\ use_captain = FALSE
    /\ max_players_from_team = 0
    /\ captain_candidates = << >>
    /\ ci = 0
    /\ original_players = << >>
    /\ best_lineup = NoLineup
    /\ best_total_points = 0
    /\ best_captain = NoPlayer
    /\ result = NoLineup
    /\ outcome = "none"
    /\ SideIdle

---------------------------------------------------------------------------
(* generate_lineup *)

\* max_players_from_team: int = 3
DefaultMaxPlayersFromTeam == 3

\* generate_lineup(use_captain=False): one run of
\* _generate_lineup_without_captain; its exception is re-raised
GenerateWithoutCaptain ==
    /\ pc = "idle"
    /\ use_captain' = FALSE
    /\ max_players_from_team' = DefaultMaxPlayersFromTeam
    /\ \E run \in WithoutCaptainRuns(players, teams, locked_players,
                                     available_players,
                                     DefaultMaxPlayersFromTeam) :
        /\ result' = run.lineup
        /\ outcome' = IF run.failed THEN "Infeasible" ELSE "lineup"
    /\ pc' = "done"
    /\ UNCHANGED <<pool, search>>
    /\ UNCHANGED <<request, side>>

\* generate_lineup(use_captain=True) up to the loop of
\* _generate_lineup_with_captain
StartCaptainSearch ==
    /\ pc = "idle"
    /\ use_captain' = TRUE
    /\ max_players_from_team' = DefaultMaxPlayersFromTeam
    /\ captain_candidates' = SelectSeq(players, LAMBDA p : p.position # "DEF")
    /\ best_lineup' = NoLineup
    /\ best_total_points' = 0
    /\ best_captain' = NoPlayer
    /\ ci' = 1
    /\ pc' = "captain_loop"
    /\ UNCHANGED <<pool, original_players, result, outcome>>
    /\ UNCHANGED <<request, side>>

\* temp_players: a fresh CFLPlayer with doubled points in the place of the
\* candidate, the pool's own objects elsewhere
TempPlayer(player) ==
    [id |-> player.id, position |-> player.position, team |-> player.team,
     salary |-> player.salary,
     projected_points |-> player.projected_points * 2,
     is_captain |-> FALSE, is_locked |-> FALSE,
     is_current_lineup |-> FALSE, shared |-> FALSE]
TempPlayers(ps, candidate) ==
    [k \in 1..Len(ps) |->
        IF ps[k].id = candidate.id THEN TempPlayer(ps[k]) ELSE ps[k]]

\* one iteration of the loop, up to the sub-solve: self.players is
\* swapped for the modified pool
CaptainPerturb ==
    /\ pc = "captain_loop"
    /\ ci <= Len(captain_candidates)
    /\ original_players' = players
    /\ players' = TempPlayers(players, captain_candidates[ci])
    /\ pc' = "sub_solve"
    /\ UNCHANGED <<teams, locked_players, available_players, use_captain,
                   max_players_from_team, captain_candidates, ci, best_lineup,
                   best_total_points, best_captain, result, outcome>>
    /\ UNCHANGED <<request, side>>

\* CaptainSubSolve where an equal total replaces the best so far
CaptainSubSolve_LatestWins ==
    /\ pc = "sub_solve"
    /\ \E run \in WithoutCaptainRuns(players, teams, locked_players,
                                     available_players,
                                     max_players_from_team) :
        /\ IF ~run.failed /\ run.lineup.projected_points >= best_total_points
           THEN /\ best_total_points' = run.lineup.projected_points
                /\ best_lineup' = run.lineup
                /\ best_captain' = captain_candidates[ci]
           ELSE UNCHANGED <<best_total_points, best_lineup, best_captain>>
    /\ players' = original_players
    /\ ci' = ci + 1
    /\ pc' = "captain_loop"
    /\ UNCHANGED <<teams, locked_players, available_players, use_captain,
                   max_players_from_team, captain_candidates,
                   original_players, result, outcome>>
    /\ UNCHANGED <<request, side>>

\* CaptainSubSolve where a failed sub-solve ends the whole search
CaptainSubSolve_Abort ==
    /\ pc = "sub_solve"
    /\ \E run \in WithoutCaptainRuns(players, teams, locked_players,
                                     available_players,
                                     max_players_from_team) :
        /\ IF ~run.failed /\ run.lineup.projected_points > best_total_points
           THEN /\ best_total_points' = run.lineup.projected_points
                /\ best_lineup' = run.lineup
                /\ best_captain' = captain_candidates[ci]
           ELSE UNCHANGED <<best_total_points, best_lineup, best_captain>>
        /\ IF run.failed
           THEN pc' = "done" /\ outcome' = "Infeasible"
           ELSE pc' = "captain_loop" /\ outcome' = outcome
    /\ players' = original_players
    /\ ci' = ci + 1
    /\ UNCHANGED <<teams, locked_players, available_players, use_captain,
                   max_players_from_team, captain_candidates,
                   original_players, result>>
    /\ UNCHANGED <<request, side>>

\* the rest of the iteration: the sub-solve, the comparison with the best
\* total so far, and the finally clause that restores self.players
CaptainSubSolve ==
    /\ pc = "sub_solve"
    /\ \E run \in WithoutCaptainRuns(players, teams, locked_players,
                                     available_players,
                                     max_players_from_team) :
        /\ IF ~run.failed /\ run.lineup.projected_points > best_total_points
           THEN /\ best_total_points' = run.lineup.projected_points
                /\ best_lineup' = run.lineup
                /\ best_captain' = captain_candidates[ci]
           ELSE UNCHANGED <<best_total_points, best_lineup, best_captain>>
    /\ players' = original_players
    /\ ci' = ci + 1
    /\ pc' = "captain_loop"
    /\ UNCHANGED <<teams, locked_players, available_players, use_captain,
                   max_players_from_team, captain_candidates,
                   original_players, result, outcome>>
    /\ UNCHANGED <<request, side>>

\* the first index of a lineup entry with the captain's id, 0 if none
CaptainIndex(lineup_players, captain) ==
    IF \E k \in DOMAIN lineup_players : lineup_players[k].id = captain.id
    THEN CHOOSE k \in DOMAIN lineup_players :
            /\ lineup_players[k].id = captain.id
            /\ \A j \in 1..(k - 1) : lineup_players[j].id # captain.id
    ELSE 0

\* player.is_captain = True on the first entry with the captain's id
MarkCaptain(lineup_players, captain) ==
    [k \in DOMAIN lineup_players |->
        IF k = CaptainIndex(lineup_players, captain)
        THEN [lineup_players[k] EXCEPT !.is_captain = TRUE]
        ELSE lineup_players[k]]

\* the same assignment seen from the pool: the marked entry is an object
\* of the pool when it is a locked player of the lineup
MarkShared(ps, lineup_players, captain) ==
    LET k == CaptainIndex(lineup_players, captain)
    IN  IF k # 0 /\ lineup_players[k].shared
        THEN [j \in DOMAIN ps |->
                IF ps[j].id = captain.id
                THEN [ps[j] EXCEPT !.is_captain = TRUE] ELSE ps[j]]
        ELSE ps

\* CaptainLineup with the doubled score of the sub-solve as the bonus
CaptainLineup_DoubledBonus(lineup, captain) ==
    LET marked == MarkCaptain(lineup.players, captain)
        base_points == SeqPoints(marked, Len(marked))
    IN  [lineup EXCEPT
            !.players = marked,
            !.captain_id = captain.id,
            !.captain_bonus_points = captain.projected_points * 2,
            !.projected_points = base_points + captain.projected_points]

\* best_lineup after the captain is marked and the total recomputed
CaptainLineup(lineup, captain) ==
    LET marked == MarkCaptain(lineup.players, captain)
        base_points == SeqPoints(marked, Len(marked))
    IN  [lineup EXCEPT
            !.players = marked,
            !.captain_id = captain.id,
            !.captain_bonus_points = captain.projected_points,
            !.projected_points = base_points + captain.projected_points]

\* after the loop, a best lineup was recorded
CaptainFound ==
    /\ pc = "captain_loop"
    /\ ci > Len(captain_candidates)
    /\ best_lineup # NoLineup /\ best_captain # NoPlayer
    /\ result' = CaptainLineup(best_lineup, best_captain)
    /\ outcome' = "lineup"
    /\ players' = MarkShared(players, best_lineup.players, best_captain)
    /\ locked_players' =
           MarkShared(locked_players, best_lineup.players, best_captain)
    /\ available_players' =
           MarkShared(available_players, best_lineup.players, best_captain)
    /\ pc' = "done"
    /\ UNCHANGED <<teams, use_captain, max_players_from_team, search>>
    /\ UNCHANGED <<request, side>>

\* after the loop, nothing was recorded: fall back to
\* _generate_lineup_without_captain
CaptainFallback ==
    /\ pc = "captain_loop"
    /\ ci > Len(captain_candidates)
    /\ ~(best_lineup # NoLineup /\ best_captain # NoPlayer)
    /\ \E run \in WithoutCaptainRuns(players, teams, locked_players,
                                     available_players,
                                     max_players_from_team) :
        /\ result' = run.lineup
        /\ outcome' = IF run.failed THEN "Infeasible" ELSE "lineup"
    /\ pc' = "done"
    /\ UNCHANGED <<pool, use_captain, max_players_from_team, search>>
    /\ UNCHANGED <<request, side>>

Next ==
    \/ GenerateWithoutCaptain
    \/ StartCaptainSearch
    \/ CaptainPerturb
    \/ CaptainSubSolve
    \/ CaptainFound
    \/ CaptainFallback

Spec == Init /\ [][Next]_vars

---------------------------------------------------------------------------
(* api_server.py: the /optimize endpoint served by one process *)

\* The requests are served with engine pulp, a source other than "our" (no
\* custom projections are applied to the body) and num_lineups = 1.

\* the pools the request bodies are made from
ServerScenarios ==
    {Scenario((1 :> 1), {}, {}, {}),
     Scenario(<< >>, {}, {}, {4, 6, DefId(1)})}

\* the request bodies: players and teams of one pool, or one of the two
\* lists only, or neither
Bodies ==
    UNION {{[players |-> RawPlayers(sc), teams |-> RawTeams(sc)],
            [players |-> RawPlayers(sc), teams |-> << >>],
            [players |-> << >>, teams |-> RawTeams(sc)]} :
           sc \in ServerScenarios}
    \cup {[players |-> << >>, teams |-> << >>]}

\* pulp_optimizer = CustomCFLOptimizer(): the process has served nothing
ServerInit ==
    /\ players = << >>
    /\ teams = << >>
    /\ locked_players = << >>
    /\ available_players = << >>
    /\ request = [players |-> << >>, teams |-> << >>]
    /\ pc = "waiting"
    /\ use_captain = FALSE
    /\ max_players_from_team = 0
    /\ captain_candidates = << >>
    /\ ci = 0
    /\ original_players = << >>
    /\ best_lineup = NoLineup
    /\ best_total_points = 0
    /\ best_captain = NoPlayer
    /\ result = NoLineup
    /\ outcome = "none"
    /\ SideIdle

\* optimize_lineup for a body without players and without teams: status
\* 400, the optimizer is not touched
RejectRequest ==
    /\ pc \in {"waiting", "done"}
    /\ \E data \in Bodies :
        /\ data.players = << >> /\ data.teams = << >>
        /\ request' = data
    /\ result' = NoLineup
    /\ outcome' = "bad_request"
    /\ pc' = "done"
    /\ UNCHANGED <<pool, use_captain, max_players_from_team, search>>
    /\ UNCHANGED side

\* optimize_lineup up to its call of generate_lineup: players are loaded
\* if the body has players, teams if it has teams.  The locals of the
\* previous call are gone.
OptimizeRequest ==
    /\ pc \in {"waiting", "done"}
    /\ \E data \in Bodies :
        /\ ~(data.players = << >> /\ data.teams = << >>)
        /\ request' = data
        /\ IF data.players # << >>
           THEN /\ players' = LoadPlayers(data.players)
                /\ locked_players' = LoadLocked(data.players)
                /\ available_players' = LoadAvailable(data.players)
           ELSE UNCHANGED <<players, locked_players, available_players>>
        /\ IF data.teams # << >>
           THEN teams' = LoadTeams(data.teams)
           ELSE UNCHANGED teams
    /\ captain_candidates' = << >>
    /\ ci' = 0
    /\ original_players' = << >>
    /\ best_lineup' = NoLineup
    /\ best_total_points' = 0
    /\ best_captain' = NoPlayer
    /\ result' = NoLineup
    /\ outcome' = "none"
    /\ pc' = "idle"
    /\ UNCHANGED <<use_captain, max_players_from_team>>
    /\ UNCHANGED side

ServerNext ==
    \/ RejectRequest
    \/ OptimizeRequest
    \/ GenerateWithoutCaptain
    \/ StartCaptainSearch
    \/ CaptainPerturb
    \/ CaptainSubSolve
    \/ CaptainFound
    \/ CaptainFallback

ServerSpec == ServerInit /\ [][ServerNext]_vars

---------------------------------------------------------------------------
(* generate_multiple_lineups *)

\* the largest count generate_multiple_lineups is called with
MaxCount == 2

\* the pools generate_multiple_lineups is called on: one candidate hot, no
\* QB, one player locked, seven candidates that make up a roster, and a
\* locked QB without a TE to go with it
MultipleScenarios ==
    {Scenario((1 :> 1), {}, {}, {}),
     Scenario(<< >>, {}, {}, {1, 4}),
     Scenario((2 :> 1), {}, {1}, {}),
     Scenario((2 :> 1), {}, {}, {1, 5, DefId(2)}),
     Scenario((2 :> 1), {}, {1}, {6})}

MultipleInit ==
    /\ \E sc \in MultipleScenarios :
        /\ players = LoadPlayers(RawPlayers(sc))
        /\ locked_players = LoadLocked(RawPlayers(sc))
        /\ available_players = LoadAvailable(RawPlayers(sc))
        /\ teams = LoadTeams(RawTeams(sc))
        /\ request = [players |-> RawPlayers(sc), teams |-> RawTeams(sc)]
    /\ pc = "idle"
    /\ use_captain = FALSE
    /\ max_players_from_team = 0
    /\ captain_candidates = << >>
    /\ ci = 0
    /\ original_players = << >>
    /\ best_lineup = NoLineup
    /\ best_total_points = 0
    /\ best_captain = NoPlayer
    /\ result = NoLineup
    /\ outcome = "none"
    /\ SideIdle

\* the call: lineups = [], used_players = set(), and the loop is entered
\* unless range(count) is empty
GenerateMultipleLineups ==
    /\ caller = "none"
    /\ pc = "idle"
    /\ \E n \in 0..MaxCount, captain \in BOOLEAN :
        /\ count' = n
        /\ use_captain' = captain
        /\ caller' = IF n = 0 THEN "returned" ELSE "loop"
    /\ lineups' = << >>
    /\ used_players' = {}
    /\ UNCHANGED <<pool, pc, max_players_from_team, search, result, outcome,
                   request, projections, pydfs,
                   greedy>>

\* one iteration calls self.generate_lineup(max_players_from_team,
\* use_captain)
MultipleGenerate ==
    /\ caller = "loop"
    /\ \/ use_captain /\ StartCaptainSearch
       \/ ~use_captain /\ GenerateWithoutCaptain

\* MultipleAppend that appends the lineup twice
MultipleAppend_Twice ==
    /\ caller = "loop"
    /\ pc = "done" /\ outcome = "lineup"
    /\ lineups' = Append(Append(lineups, result), result)
    /\ used_players' =
           used_players \cup {result.players[k].id : k \in DOMAIN result.players}
    /\ caller' = IF Len(lineups') >= count THEN "returned" ELSE "loop"
    /\ pc' = "idle"
    /\ UNCHANGED <<pool, use_captain, max_players_from_team, search, result,
                   outcome, request, count, projections, pydfs,
                   greedy>>

\* generate_lineup returned: the lineup is appended, its players are
\* tracked, and the loop goes on until range(count) is exhausted
MultipleAppend ==
    /\ caller = "loop"
    /\ pc = "done" /\ outcome = "lineup"
    /\ lineups' = Append(lineups, result)
    /\ used_players' =
           used_players \cup {result.players[k].id : k \in DOMAIN result.players}
    /\ caller' = IF Len(lineups') = count THEN "returned" ELSE "loop"
    /\ pc' = "idle"
    /\ UNCHANGED <<pool, use_captain, max_players_from_team, search, result,
                   outcome, request, count, projections, pydfs,
                   greedy>>

\* generate_lineup raised: the exception is logged and the loop is left
MultipleBreak ==
    /\ caller = "loop"
    /\ pc = "done" /\ outcome = "Infeasible"
    /\ caller' = "returned"
    /\ pc' = "idle"
    /\ UNCHANGED <<pool, use_captain, max_players_from_team, search, result,
                   outcome, request, count, lineups, used_players,
                   projections, pydfs,
                   greedy>>

MultipleNext ==
    \/ GenerateMultipleLineups
    \/ MultipleGenerate
    \/ CaptainPerturb
    \/ CaptainSubSolve
    \/ CaptainFound
    \/ CaptainFallback
    \/ MultipleAppend
    \/ MultipleBreak

MultipleSpec == MultipleInit /\ [][MultipleNext]_vars

---------------------------------------------------------------------------
(* projections.py: build_projection_map and build_team_projection_map *)

(* Points are thousandths of a point, as above.  The weighted projection   *)
(* is a float that need not be a whole number of thousandths; it is kept   *)
(* as a whole number of "fine" units, 20 to the thousandth, in which       *)
(* 0.3 * x is 6 * x, 0.5 * (x + y) / 2 is 5 * (x + y) and 0.2 * x is       *)
(* 4 * x.  Arithmetic is exact, and round() takes a half up.               *)

\* a gws map holds at most MaxGames keys
MaxGames == 4

\* the keys of the gws maps: gameweek numerals, and a key that is none
GwsKeys == {"1", "2", "10", "total"}
\* the points of a game
GamePoints == {5000, 8110}

\* str.isdigit() and int() on the keys
IsDigit(week) == week \in {"1", "2", "10"}
IntOf(week) ==
    CASE week = "1" -> 1 [] week = "2" -> 2 [] week = "10" -> 10

\* a float of thousandths in fine units
Fine(x) == 20 * x
\* round(x, 2) of a float in fine units, in thousandths
RoundFine(x) == ((x + 100) \div 200) * 10

\* gameweeks: the (int(week), points) pairs of the keys that are numerals,
\* in the order of the map
Gameweeks(gws_data) ==
    LET digits == SelectSeq(gws_data, LAMBDA g : IsDigit(g.week))
    IN  [k \in 1..Len(digits) |->
            [week |-> IntOf(digits[k].week), points |-> digits[k].points]]

\* a list without its element j
Without(gs, j) == [k \in 1..(Len(gs) - 1) |-> IF k < j THEN gs[k] ELSE gs[k + 1]]

\* SortByWeek that leaves the list in the order of the map
SortByWeek_Unsorted(gs) == gs

RECURSIVE SortByWeek(_)
\* gameweeks.sort(key=lambda x: x[0]): ascending by week, stable
SortByWeek(gs) ==
    IF gs = << >> THEN << >>
    ELSE LET j == CHOOSE k \in DOMAIN gs :
                    /\ \A m \in DOMAIN gs : gs[k].week <= gs[m].week
                    /\ \A m \in 1..(k - 1) : gs[m].week # gs[k].week
         IN  <<gs[j]>> \o SortByWeek(Without(gs, j))

\* calculate_weighted_projection, in fine units
CalculateWeightedProjection(gws_data, stats) ==
    LET gameweeks == SortByWeek(Gameweeks(gws_data))
        n == Len(gameweeks)
    IN  IF n < 2 THEN Fine(stats.avgPoints)
        ELSE LET last_game_pts == gameweeks[n].points
                 prev_2_sum == IF n >= 3
                               THEN gameweeks[n - 2].points
                                    + gameweeks[n - 1].points
                               ELSE gameweeks[1].points + gameweeks[1].points
             IN  6 * last_game_pts + 5 * prev_2_sum + 4 * stats.avgPoints

\* stats of an item: the item itself for teams, item['stats'] for players
StatsOf(item, type) == IF type = "teams" THEN item ELSE item.stats

\* projection_map[item_id] = value
SetProjection(map, item_id, value) ==
    [x \in DOMAIN map \cup {item_id} |->
        IF x = item_id THEN value ELSE map[x]]

\* the gws maps: the keys in some order, each with the points of a game
GwsMaps ==
    UNION {{g \in [1..n -> [week : GwsKeys, points : GamePoints]] :
               \A j, k \in 1..n : j # k => g[j].week # g[k].week} :
           n \in 0..MaxGames}

\* what stats['points'] can be: an empty list, null, or a dictionary whose
\* gws map may be empty
PointsData ==
    {[kind |-> "list", gws |-> << >>], [kind |-> "null", gws |-> << >>]}
    \cup {[kind |-> "dict", gws |-> g] : g \in GwsMaps}

\* an item of players_json or teams_json; id 0 stands for an item without
\* id and feedId
Item(type, id, avg, site, points) ==
    IF type = "teams"
    THEN [id |-> id, avgPoints |-> avg, projectedScores |-> site,
          points |-> points]
    ELSE [id |-> id,
          stats |-> [avgPoints |-> avg, projectedScores |-> site,
                     points |-> points]]

\* the lists of items: one item, alone or followed by an item with games,
\* by an item without id or by an item without games
ProjectionInputs(type) ==
    UNION {{<<first>>} \cup {<<first, second>> : second \in
              {Item(type, 2, 7500, 7004,
                    [kind |-> "dict",
                     gws |-> <<[week |-> "2", points |-> 4000],
                               [week |-> "1", points |-> 8000]>>]),
               Item(type, 0, 7500, 7004, [kind |-> "list", gws |-> << >>]),
               Item(type, 2, 7500, 7004, [kind |-> "list", gws |-> << >>])}}
           : first \in {Item(type, 1, 12006, 11004, points) :
                            points \in PointsData}}

\* _build_projection_map_internal(data_json, data_type) was called and
\* projection_map = {}
ProjectionInit ==
    /\ EmptyOptimizer
    /\ MultipleIdle
    /\ PydfsIdle
    /\ GreedyIdle
    /\ data_type \in {"players", "teams"}
    /\ data_json \in ProjectionInputs(data_type)
    /\ projection_map = << >>
    /\ item_no = 1

\* the item has no id: continue
SkipItem ==
    /\ item_no \in DOMAIN data_json
    /\ data_json[item_no].id = 0
    /\ item_no' = item_no + 1
    /\ UNCHANGED <<optimizer, multiple, pydfs, greedy, data_type, data_json,
                   projection_map>>

\* points is a list: the site projection
FallbackList ==
    /\ item_no \in DOMAIN data_json
    /\ \E item \in {data_json[item_no]} :
        /\ item.id # 0
        /\ StatsOf(item, data_type).points.kind = "list"
        /\ projection_map' =
             SetProjection(projection_map, item.id,
                           Round2(StatsOf(item, data_type).projectedScores))
    /\ item_no' = item_no + 1
    /\ UNCHANGED <<optimizer, multiple, pydfs, greedy, data_type, data_json>>

\* no gws map or fewer than two keys in it: the site projection
FallbackFewGames ==
    /\ item_no \in DOMAIN data_json
    /\ \E item \in {data_json[item_no]} :
        /\ item.id # 0
        /\ StatsOf(item, data_type).points.kind = "dict"
        /\ Len(StatsOf(item, data_type).points.gws) < 2
        /\ projection_map' =
             SetProjection(projection_map, item.id,
                           Round2(StatsOf(item, data_type).projectedScores))
    /\ item_no' = item_no + 1
    /\ UNCHANGED <<optimizer, multiple, pydfs, greedy, data_type, data_json>>

\* two keys or more: the weighted projection, rounded
WeightedItem ==
    /\ item_no \in DOMAIN data_json
    /\ \E item \in {data_json[item_no]} :
        /\ item.id # 0
        /\ StatsOf(item, data_type).points.kind = "dict"
        /\ Len(StatsOf(item, data_type).points.gws) >= 2
        /\ projection_map' =
             SetProjection(projection_map, item.id,
                 RoundFine(CalculateWeightedProjection(
                               StatsOf(item, data_type).points.gws,
                               StatsOf(item, data_type))))
    /\ item_no' = item_no + 1
    /\ UNCHANGED <<optimizer, multiple, pydfs, greedy, data_type, data_json>>

\* points is null: points_data.get raises, and the handler stores the site
\* projection
ErrorFallback ==
    /\ item_no \in DOMAIN data_json
    /\ \E item \in {data_json[item_no]} :
        /\ item.id # 0
        /\ StatsOf(item, data_type).points.kind = "null"
        /\ projection_map' =
             SetProjection(projection_map, item.id,
                           Round2(StatsOf(item, data_type).projectedScores))
    /\ item_no' = item_no + 1
    /\ UNCHANGED <<optimizer, multiple, pydfs, greedy, data_type, data_json>>

ProjectionNext ==
    \/ SkipItem
    \/ FallbackList
    \/ FallbackFewGames
    \/ WeightedItem
    \/ ErrorFallback

ProjectionSpec == ProjectionInit /\ [][ProjectionNext]_vars

---------------------------------------------------------------------------
(* cfl_pydfs_optimizer.py: CFLPydfsOptimizer on pydfs_lineup_optimizer *)

(* The library is used through its interface.  optimize(1) yields one      *)
(* lineup that maximises the sum of the players' fppg, as they are at the  *)
(* time of the call, over the rosters CFLCustomSettings allows, and raises *)
(* when there is none.  The players of a lineup are LineupPlayer objects:  *)
(* views of the pool's Player objects, whose attribute reads reach the     *)
(* Player, so player.fppg is the Player's fppg at the time of the read;    *)
(* an attribute set on a view stays on the view.  A view is modelled by    *)
(* the id of its Player and by its own is_captain.                         *)
(* lineup.fantasy_points_projection is the sum of the fppg at the time of  *)
(* the read, rounded to 3 decimals: on thousandths, the sum.               *)

\* every player of the feed projects PydfsBase levels of points at least
PydfsBase == 1

\* the request bodies: every player projects the base and its level, but
\* the players of cold, who project nothing
PydfsBody(sc, cold) ==
    [players |->
        [k \in DOMAIN PlayerFeed |->
            [RawPlayers(sc)[k] EXCEPT !.projectedScores =
                IF PlayerFeed[k].id \in cold THEN 0
                ELSE @ + PointsOfLevel(PydfsBase)]],
     teams |-> RawTeams(sc)]

\* pools with and without hot players, a dear QB, a player locked in the
\* current lineup, players locked outside it (both QBs, or the TE), a
\* kicker, a player without projection
PydfsBodies ==
    UNION {{PydfsBody(Scenario(lv, {}, {}, {}), {}),
            PydfsBody(Scenario(lv, {}, {3}, {6}), {}),
            PydfsBody(Scenario(lv, {1}, {}, {}), {}),
            PydfsBody(Scenario(lv, {}, {}, {1, 4}), {}),
            PydfsBody(Odd(Scenario(lv, {}, {}, {}), {5}, {}), {}),
            PydfsBody(Scenario(lv, {}, {}, {}), {8})} :
           lv \in {<< >>, (2 :> 1), (1 :> 2), (5 :> 1) @@ (7 :> 2),
                   (DefId(2) :> 1)}}

\* Player(...) built by load_players_from_json
PydfsPlayer(r) ==
    [id |-> r.id, position |-> NormalizePosition(r.position),
     team |-> r.team, salary |-> r.cost, fppg |-> r.projectedScores]
\* the records load_players_from_json keeps
PydfsKept(r) ==
    /\ ~(r.isLocked /\ ~r.is_current_lineup)
    /\ NormalizePosition(r.position) \in {"QB", "RB", "WR", "TE"}
    /\ r.cost > 0 /\ r.projectedScores > 0
\* Player(...) built by load_teams_from_json
DefensePlayer(r) ==
    [id |-> DefId(r.id), position |-> "DEF", team |-> r.abbreviation,
     salary |-> r.cost, fppg |-> r.projectedScores]
\* all_players = self.loaded_players + defense_players
PydfsLoad(data) ==
    LET kept == SelectSeq(data.players, PydfsKept)
        defs == SelectSeq(data.teams, LAMBDA r : r.cost > 0)
    IN  [k \in 1..Len(kept) |-> PydfsPlayer(kept[k])]
        \o [k \in 1..Len(defs) |-> DefensePlayer(defs[k])]

\* the options of the library's problem: the players with their fppg
PydfsOptions(ps) ==
    [k \in DOMAIN ps |->
        [id |-> ps[k].id, position |-> ps[k].position, team |-> ps[k].team,
         salary |-> ps[k].salary, projected_points |-> ps[k].fppg]]

\* CFLCustomSettings: budget, max_from_one_team and the seven positions
PydfsConstraints(opts, S) ==
    /\ Cardinality(S) = 7
    /\ CountPos(opts, S, {"QB"}) = 1
    /\ CountPos(opts, S, {"DEF"}) = 1
    /\ CountPos(opts, S, {"WR", "RB", "TE"}) = 5
    /\ CountPos(opts, S, {"WR"}) >= 2
    /\ CountPos(opts, S, {"RB"}) >= 2
    /\ SumSalary(opts, S, Len(opts)) <= 70000
    /\ \A t \in {opts[k].team : k \in DOMAIN opts} :
           CountTeam(opts, S, t) <= 3

\* the selections next(self.optimizer.optimize(1)) may yield
PydfsSolutions(opts) ==
    UNION {Maximisers(opts, F) :
           F \in {{S \in SUBSET (DOMAIN opts) : PydfsConstraints(opts, S)}}}

\* the lineup of a selection: views of the selected players
PydfsLineupOf(opts, S) ==
    [k \in 1..Cardinality(S) |->
        [id |-> PickSeq(opts, S, Len(opts))[k].id, is_captain |-> FALSE]]

\* the pool with the fppg of one player set
SetFppg(ps, id, fppg) ==
    [k \in DOMAIN ps |-> IF ps[k].id = id THEN [ps[k] EXCEPT !.fppg = fppg]
                         ELSE ps[k]]
\* the Player behind a view
PlayerOf(ps, id) == ps[CHOOSE k \in DOMAIN ps : ps[k].id = id]

PydfsInit ==
    /\ EmptyOptimizer
    /\ MultipleIdle
    /\ ProjectionsIdle
    /\ PydfsIdle
    /\ GreedyIdle

\* optimize_from_request up to the loop of get_best_lineup: players and
\* teams are loaded, the candidates are the players that are no DEF
PydfsOptimizeFromRequest ==
    /\ pydfs_pc = "idle"
    /\ \E data \in PydfsBodies :
        /\ request' = data
        /\ all_players' = PydfsLoad(data)
        /\ candidates' =
             SelectSeq([k \in DOMAIN PydfsLoad(data) |-> PydfsLoad(data)[k].id],
                       LAMBDA id : id > 0)
    /\ pydfs_lineup' = << >>
    /\ best_points' = 0 - 1
    /\ best_captain_id' = 0
    /\ captain_no' = 1
    /\ pydfs_pc' = "loop"
    /\ UNCHANGED <<custom, multiple, projections, greedy,
                   original_fppg, response>>

\* original_fppg = captain.fppg; captain.fppg *= 2
PydfsDouble ==
    /\ pydfs_pc = "loop"
    /\ captain_no \in DOMAIN candidates
    /\ \E captain \in {PlayerOf(all_players, candidates[captain_no])} :
        /\ original_fppg' = captain.fppg
        /\ all_players' = SetFppg(all_players, captain.id, captain.fppg * 2)
    /\ pydfs_pc' = "solve"
    /\ UNCHANGED <<optimizer, multiple, projections, greedy,
                   candidates, captain_no,
                   best_points, best_captain_id, pydfs_lineup, response>>

\* the solve yields a lineup; it is recorded when its points beat the
\* best so far; finally captain.fppg = original_fppg
PydfsSolve ==
    /\ pydfs_pc = "solve"
    /\ \E opts \in {PydfsOptions(all_players)} :
         \E S \in PydfsSolutions(opts) :
            \E points \in {SumPoints(opts, S, Len(opts))} :
               IF points > best_points
               THEN /\ best_points' = points
                    /\ pydfs_lineup' = PydfsLineupOf(opts, S)
                    /\ best_captain_id' = candidates[captain_no]
               ELSE UNCHANGED <<best_points, pydfs_lineup, best_captain_id>>
    /\ all_players' =
         SetFppg(all_players, candidates[captain_no], original_fppg)
    /\ captain_no' = captain_no + 1
    /\ pydfs_pc' = "loop"
    /\ UNCHANGED <<optimizer, multiple, projections, greedy, candidates,
                   original_fppg, response>>

\* PydfsSolveFails without the finally clause
PydfsSolveFails_NoReset ==
    /\ pydfs_pc = "solve"
    /\ PydfsSolutions(PydfsOptions(all_players)) = {}
    /\ captain_no' = captain_no + 1
    /\ pydfs_pc' = "loop"
    /\ UNCHANGED <<optimizer, multiple, projections, greedy,
                   candidates, all_players,
                   original_fppg, best_points, best_captain_id, pydfs_lineup,
                   response>>

\* the solve raises: the exception is logged; finally
\* captain.fppg = original_fppg
PydfsSolveFails ==
    /\ pydfs_pc = "solve"
    /\ PydfsSolutions(PydfsOptions(all_players)) = {}
    /\ all_players' =
         SetFppg(all_players, candidates[captain_no], original_fppg)
    /\ captain_no' = captain_no + 1
    /\ pydfs_pc' = "loop"
    /\ UNCHANGED <<optimizer, multiple, projections, greedy, candidates,
                   original_fppg, best_points, best_captain_id, pydfs_lineup,
                   response>>

\* the views of a lineup with is_captain set on the first view of the
\* captain
PydfsMark(lineup, captain_id) ==
    [k \in DOMAIN lineup |->
        IF /\ lineup[k].id = captain_id
           /\ \A j \in 1..(k - 1) : lineup[j].id # captain_id
        THEN [lineup[k] EXCEPT !.is_captain = TRUE]
        ELSE lineup[k]]

\* actual_points of a view: player.fppg, or player.fppg / 2 for the
\* captain (every fppg is an even number of thousandths)
ActualPoints(ps, view) ==
    IF view.is_captain THEN PlayerOf(ps, view.id).fppg \div 2
    ELSE PlayerOf(ps, view.id).fppg

RECURSIVE ActualSum(_, _, _)
\* projected_points after the first n views
ActualSum(ps, lineup, n) ==
    IF n = 0 THEN 0
    ELSE ActualSum(ps, lineup, n - 1) + ActualPoints(ps, lineup[n])

RECURSIVE ViewSalary(_, _, _)
\* total_salary after the first n views
ViewSalary(ps, lineup, n) ==
    IF n = 0 THEN 0
    ELSE ViewSalary(ps, lineup, n - 1) + PlayerOf(ps, lineup[n].id).salary

\* captain_bonus_points after the loop: the actual points of the last
\* view that is captain, 0 when there is none
CaptainBonus(ps, lineup) ==
    LET caps == {k \in DOMAIN lineup : lineup[k].is_captain}
    IN  IF caps = {} THEN 0
        ELSE ActualPoints(ps, lineup[CHOOSE k \in caps :
                                         \A j \in caps : j <= k])

\* the dictionary optimize_from_request returns
PydfsResponse(ps, lineup, captain_id) ==
    LET total_salary == ViewSalary(ps, lineup, Len(lineup))
        projected_points == ActualSum(ps, lineup, Len(lineup))
                            + CaptainBonus(ps, lineup)
    IN  [kind |-> "lineup",
         players |-> [k \in DOMAIN lineup |->
                        [id |-> lineup[k].id,
                         team |-> PlayerOf(ps, lineup[k].id).team,
                         position |-> PlayerOf(ps, lineup[k].id).position,
                         salary |-> PlayerOf(ps, lineup[k].id).salary,
                         projected_points |->
                             Round2(ActualPoints(ps, lineup[k])),
                         is_captain |-> lineup[k].is_captain]],
         total_salary |-> total_salary,
         projected_points |-> Round2(projected_points),
         remaining_cap |-> 70000 - total_salary,
         salary_cap |-> 70000,
         lineup_score |-> Round2(projected_points),
         is_valid |-> (total_salary <= 70000 /\ Len(lineup) = 7),
         captain_id |-> captain_id,
         captain_bonus_points |-> Round2(CaptainBonus(ps, lineup))]

\* after the loop with a best lineup: the captain is marked in it and the
\* response is built from it
PydfsRespond ==
    /\ pydfs_pc = "loop"
    /\ captain_no > Len(candidates)
    /\ pydfs_lineup # << >>
    /\ pydfs_lineup' = IF best_captain_id # 0
                       THEN PydfsMark(pydfs_lineup, best_captain_id)
                       ELSE pydfs_lineup
    /\ response' = PydfsResponse(all_players, pydfs_lineup', best_captain_id)
    /\ pydfs_pc' = "done"
    /\ UNCHANGED <<optimizer, multiple, projections, greedy,
                   all_players, candidates,
                   captain_no, original_fppg, best_points, best_captain_id>>

\* after the loop without a lineup: raise ValueError("No valid lineup
\* found")
PydfsNoLineup ==
    /\ pydfs_pc = "loop"
    /\ captain_no > Len(candidates)
    /\ pydfs_lineup = << >>
    /\ response' = [kind |-> "ValueError"]
    /\ pydfs_pc' = "done"
    /\ UNCHANGED <<optimizer, multiple, projections, greedy,
                   all_players, candidates,
                   captain_no, original_fppg, best_points, best_captain_id,
                   pydfs_lineup>>

PydfsNext ==
    \/ PydfsOptimizeFromRequest
    \/ PydfsDouble
    \/ PydfsSolve
    \/ PydfsSolveFails
    \/ PydfsRespond
    \/ PydfsNoLineup

PydfsSpec == PydfsInit /\ [][PydfsNext]_vars

---------------------------------------------------------------------------
(* cfl_pydfs_optimizer_simple_backup.py: the greedy CFLPydfsOptimizer *)

\* CFLPydfsOptimizer.SALARY_CAP
SALARY_CAP == 70000
\* positions_needed of get_best_lineup
positions_needed == ("QB" :> 1) @@ ("RB" :> 2) @@ ("WR" :> 2) @@ ("DEF" :> 1)

\* the request bodies: pools that fill a roster, with and without hot
\* players; an RB locked, so that one RB is left; no spare flex player; a
\* dear QB that leaves no room for a flex player; dear QB and DEFs that
\* do not fit together; dear DEFs that leave room for the cheapest flex
\* player only; fewer than 7 candidates; a kicker; a player without
\* projection
GreedyBodies ==
    UNION {{PydfsBody(Scenario(lv, {}, {}, {}), {}),
            PydfsBody(Scenario(lv, {}, {3}, {}), {}),
            PydfsBody(Scenario(lv, {}, {}, {5, 6}), {}),
            PydfsBody(Scenario(lv, {1}, {}, {4}), {}),
            PydfsBody(Scenario(lv, {1, DefId(1), DefId(2)}, {}, {4}), {}),
            PydfsBody(Scenario(lv, {1, DefId(1), DefId(2)}, {}, {}), {}),
            PydfsBody(Scenario(lv, {}, {}, {1, 4, 5, 6}), {}),
            PydfsBody(Odd(Scenario(lv, {}, {}, {}), {5}, {}), {}),
            PydfsBody(Scenario(lv, {}, {}, {}), {8})} :
           lv \in {<< >>, (2 :> 1), (6 :> 2), (3 :> 1) @@ (7 :> 2),
                   (8 :> 2) @@ (1 :> 2), (5 :> 2), (DefId(2) :> 1)}}

\* player_data of load_players_from_json; is_captain reads as False until
\* get_best_lineup sets it
GreedyPlayer(r) ==
    [id |-> r.id, position |-> NormalizePosition(r.position),
     team |-> r.team, salary |-> r.cost,
     projected_points |-> r.projectedScores, is_captain |-> FALSE]
\* the records load_players_from_json keeps: no locked player
GreedyKept(r) ==
    /\ ~r.isLocked
    /\ NormalizePosition(r.position) \in {"QB", "RB", "WR", "TE"}
    /\ r.cost > 0 /\ r.projectedScores > 0
\* team_data of load_teams_from_json
GreedyTeam(r) ==
    [id |-> DefId(r.id), position |-> "DEF", team |-> r.abbreviation,
     salary |-> r.cost, projected_points |-> r.projectedScores,
     is_captain |-> FALSE]
GreedyLoadPlayers(players_json) ==
    LET kept == SelectSeq(players_json, GreedyKept)
    IN  [k \in 1..Len(kept) |-> GreedyPlayer(kept[k])]
GreedyLoadTeams(teams_json) ==
    LET kept == SelectSeq(teams_json, LAMBDA r : r.cost > 0)
    IN  [k \in 1..Len(kept) |-> GreedyTeam(kept[k])]

\* a['value'] > b['value'] with value = projected_points / salary (every
\* loaded salary is positive)
MoreValue(a, b) ==
    a.projected_points * b.salary > b.projected_points * a.salary

RECURSIVE SortedByValue(_)
\* sorted(all_players, key=value, reverse=True): descending value, the
\* order of the list kept among equal values
SortedByValue(ps) ==
    IF ps = << >> THEN << >>
    ELSE LET k == CHOOSE k \in DOMAIN ps :
                      /\ \A j \in DOMAIN ps : ~MoreValue(ps[j], ps[k])
                      /\ \A j \in 1..(k - 1) : MoreValue(ps[k], ps[j])
         IN  <<ps[k]>> \o SortedByValue(Without(ps, k))

\* position_counts[pos] during the first pass
PositionCount(lineup, pos) ==
    Cardinality({k \in DOMAIN lineup : lineup[k].position = pos})

RECURSIVE BasePoints(_, _)
\* base_points: the sum of the projected points of the first n players
BasePoints(lineup, n) ==
    IF n = 0 THEN 0
    ELSE BasePoints(lineup, n - 1) + lineup[n].projected_points

RECURSIVE CaptainLoop(_, _)
\* best_total_points and best_captain_id after the first n players of the
\* captain loop; None is 0
CaptainLoop(lineup, n) ==
    IF n = 0 THEN [best_total_points |-> 0, best_captain_id |-> 0]
    ELSE LET before == CaptainLoop(lineup, n - 1)
             captain_points == BasePoints(lineup, Len(lineup))
                               + lineup[n].projected_points
         IN  IF /\ lineup[n].position # "DEF"
                /\ captain_points > before.best_total_points
             THEN [best_total_points |-> captain_points,
                   best_captain_id |-> lineup[n].id]
             ELSE before

GreedyInit ==
    /\ EmptyOptimizer
    /\ MultipleIdle
    /\ ProjectionsIdle
    /\ PydfsIdle
    /\ GreedyIdle

\* optimize_from_request up to get_best_lineup: players and teams loaded
GreedyOptimizeFromRequest ==
    /\ greedy_pc = "idle"
    /\ \E data \in GreedyBodies :
        /\ request' = data
        /\ greedy_players' = GreedyLoadPlayers(data.players)
        /\ greedy_teams' = GreedyLoadTeams(data.teams)
    /\ greedy_pc' = "start"
    /\ UNCHANGED <<custom, multiple, projections, pydfs, sorted_players,
                   player_no, greedy_lineup, greedy_total_salary,
                   greedy_captain_id, greedy_response>>

\* fewer than 7 players and teams: return None, None
GreedyTooFew ==
    /\ greedy_pc = "start"
    /\ Len(greedy_players \o greedy_teams) < 7
    /\ greedy_pc' = "none"
    /\ UNCHANGED <<optimizer, multiple, projections, pydfs, greedy_players,
                   greedy_teams, sorted_players, player_no, greedy_lineup,
                   greedy_total_salary, greedy_captain_id, greedy_response>>

\* the values are computed and the players sorted by them
GreedySort ==
    /\ greedy_pc = "start"
    /\ Len(greedy_players \o greedy_teams) >= 7
    /\ sorted_players' = SortedByValue(greedy_players \o greedy_teams)
    /\ player_no' = 1
    /\ greedy_lineup' = << >>
    /\ greedy_total_salary' = 0
    /\ greedy_pc' = "first"
    /\ UNCHANGED <<optimizer, multiple, projections, pydfs, greedy_players,
                   greedy_teams, greedy_captain_id, greedy_response>>

\* one round of the first pass: the player is taken when its position is
\* still needed and its salary fits
GreedyFirstPass ==
    /\ greedy_pc = "first"
    /\ player_no \in DOMAIN sorted_players
    /\ \E player \in {sorted_players[player_no]} :
         IF /\ player.position \in DOMAIN positions_needed
            /\ PositionCount(greedy_lineup, player.position)
                   < positions_needed[player.position]
            /\ greedy_total_salary + player.salary <= SALARY_CAP
         THEN /\ greedy_lineup' = Append(greedy_lineup, player)
              /\ greedy_total_salary' = greedy_total_salary + player.salary
         ELSE UNCHANGED <<greedy_lineup, greedy_total_salary>>
    /\ IF player_no < Len(sorted_players)
       THEN /\ player_no' = player_no + 1
            /\ UNCHANGED greedy_pc
       ELSE /\ player_no' = 1
            /\ greedy_pc' = "second"
    /\ UNCHANGED <<optimizer, multiple, projections, pydfs, greedy_players,
                   greedy_teams, sorted_players, greedy_captain_id,
                   greedy_response>>

\* GreedySecondPass that takes a flex player already in the lineup
GreedySecondPass_Again ==
    /\ greedy_pc = "second"
    /\ player_no \in DOMAIN sorted_players
    /\ Len(greedy_lineup) < 7
    /\ \E player \in {sorted_players[player_no]} :
         IF /\ player.position \in {"RB", "WR", "TE"}
            /\ greedy_total_salary + player.salary <= SALARY_CAP
         THEN /\ greedy_lineup' = Append(greedy_lineup, player)
              /\ greedy_total_salary' = greedy_total_salary + player.salary
              /\ greedy_pc' = "check"
              /\ UNCHANGED player_no
         ELSE /\ player_no' = player_no + 1
              /\ UNCHANGED <<greedy_lineup, greedy_total_salary, greedy_pc>>
    /\ UNCHANGED <<optimizer, multiple, projections, pydfs, greedy_players,
                   greedy_teams, sorted_players, greedy_captain_id,
                   greedy_response>>

\* one round of the second pass: a flex player that is not in the lineup
\* and whose salary fits is taken, and the loop is left (flex_needed is 0)
GreedySecondPass ==
    /\ greedy_pc = "second"
    /\ player_no \in DOMAIN sorted_players
    /\ Len(greedy_lineup) < 7
    /\ \E player \in {sorted_players[player_no]} :
         IF /\ player.position \in {"RB", "WR", "TE"}
            /\ \A k \in DOMAIN greedy_lineup : greedy_lineup[k] # player
            /\ greedy_total_salary + player.salary <= SALARY_CAP
         THEN /\ greedy_lineup' = Append(greedy_lineup, player)
              /\ greedy_total_salary' = greedy_total_salary + player.salary
              /\ greedy_pc' = "check"
              /\ UNCHANGED player_no
         ELSE /\ player_no' = player_no + 1
              /\ UNCHANGED <<greedy_lineup, greedy_total_salary, greedy_pc>>
    /\ UNCHANGED <<optimizer, multiple, projections, pydfs, greedy_players,
                   greedy_teams, sorted_players, greedy_captain_id,
                   greedy_response>>

\* the second pass ends with no player left, or with 7 players at the top
\* of a round
GreedySecondPassEnds ==
    /\ greedy_pc = "second"
    /\ player_no \notin DOMAIN sorted_players \/ Len(greedy_lineup) >= 7
    /\ greedy_pc' = "check"
    /\ UNCHANGED <<optimizer, multiple, projections, pydfs, greedy_players,
                   greedy_teams, sorted_players, player_no, greedy_lineup,
                   greedy_total_salary, greedy_captain_id, greedy_response>>

\* len(lineup) != 7: return None, None
GreedyIncomplete ==
    /\ greedy_pc = "check"
    /\ Len(greedy_lineup) # 7
    /\ greedy_pc' = "none"
    /\ UNCHANGED <<optimizer, multiple, projections, pydfs, greedy_players,
                   greedy_teams, sorted_players, player_no, greedy_lineup,
                   greedy_total_salary, greedy_captain_id, greedy_response>>

\* the captain loop, the marking of the captain, return lineup,
\* best_captain_id
GreedyCaptain ==
    /\ greedy_pc = "check"
    /\ Len(greedy_lineup) = 7
    /\ greedy_captain_id' = CaptainLoop(greedy_lineup, 7).best_captain_id
    /\ greedy_lineup' =
         [k \in DOMAIN greedy_lineup |->
            [greedy_lineup[k] EXCEPT
                !.is_captain = (greedy_lineup[k].id = greedy_captain_id')]]
    /\ greedy_pc' = "returned"
    /\ UNCHANGED <<optimizer, multiple, projections, pydfs, greedy_players,
                   greedy_teams, sorted_players, player_no,
                   greedy_total_salary, greedy_response>>

\* captain_bonus_points after the formatting loop
GreedyBonus(lineup) ==
    LET caps == {k \in DOMAIN lineup : lineup[k].is_captain}
    IN  IF caps = {} THEN 0
        ELSE lineup[CHOOSE k \in caps : \A j \in caps : j <= k]
                 .projected_points

RECURSIVE GreedySalary(_, _)
\* total_salary after the first n players of the formatting loop
GreedySalary(lineup, n) ==
    IF n = 0 THEN 0
    ELSE GreedySalary(lineup, n - 1) + lineup[n].salary

\* the dictionary optimize_from_request returns
GreedyResponse(lineup, captain_id) ==
    LET salary == GreedySalary(lineup, Len(lineup))
        points == BasePoints(lineup, Len(lineup)) + GreedyBonus(lineup)
    IN  [kind |-> "lineup",
         players |-> [k \in DOMAIN lineup |->
                        [lineup[k] EXCEPT
                            !.projected_points = Round2(@)]],
         total_salary |-> salary,
         projected_points |-> Round2(points),
         remaining_cap |-> SALARY_CAP - salary,
         salary_cap |-> SALARY_CAP,
         lineup_score |-> Round2(points),
         is_valid |-> (salary <= SALARY_CAP /\ Len(lineup) = 7),
         captain_id |-> captain_id,
         captain_bonus_points |-> Round2(GreedyBonus(lineup))]

\* a lineup came back: the response is built from it
GreedyRespond ==
    /\ greedy_pc = "returned"
    /\ greedy_response' = GreedyResponse(greedy_lineup, greedy_captain_id)
    /\ greedy_pc' = "done"
    /\ UNCHANGED <<optimizer, multiple, projections, pydfs, greedy_players,
                   greedy_teams, sorted_players, player_no, greedy_lineup,
                   greedy_total_salary, greedy_captain_id>>

\* no lineup came back: raise ValueError("No valid lineup found")
GreedyNoLineup ==
    /\ greedy_pc = "none"
    /\ greedy_response' =
         [kind |-> "ValueError", message |-> "No valid lineup found"]
    /\ greedy_pc' = "done"
    /\ UNCHANGED <<optimizer, multiple, projections, pydfs, greedy_players,
                   greedy_teams, sorted_players, player_no, greedy_lineup,
                   greedy_total_salary, greedy_captain_id>>

GreedyNext ==
    \/ GreedyOptimizeFromRequest
    \/ GreedyTooFew
    \/ GreedySort
    \/ GreedyFirstPass
    \/ GreedySecondPass
    \/ GreedySecondPassEnds
    \/ GreedyIncomplete
    \/ GreedyCaptain
    \/ GreedyRespond
    \/ GreedyNoLineup

GreedySpec == GreedyInit /\ [][GreedyNext]_vars

---------------------------------------------------------------------------
(* Vocabulary of the claims: candidates, legal rosters, totals *)

\* the players of the pool as loaded; during a sub-solve self.players holds
\* the modified pool and the loaded one is in original_players
BasePlayers == IF pc = "sub_solve" THEN original_players ELSE players

\* the candidates of the pool by id: players, and DEF units of the teams
Pool ==
    LET bp == BasePlayers
    IN  [id \in {bp[k].id : k \in DOMAIN bp}
                \cup {DefId(teams[k].id) : k \in DOMAIN teams} |->
            IF id > 0
            THEN LET p == bp[CHOOSE k \in DOMAIN bp : bp[k].id = id]
                 IN  [role |-> p.position, team |-> p.team,
                      salary |-> p.salary, points |-> p.projected_points]
            ELSE LET t == teams[CHOOSE k \in DOMAIN teams :
                                    DefId(teams[k].id) = id]
                 IN  [role |-> "DEF", team |-> t.abbreviation,
                      salary |-> t.salary, points |-> t.projected_points]]

LockedIds == {locked_players[k].id : k \in DOMAIN locked_players}
\* Available: the unlocked players and the DEF units
AvailableIds ==
    {available_players[k].id : k \in DOMAIN available_players}
    \cup {DefId(teams[k].id) : k \in DOMAIN teams}

RECURSIVE TotalSalary(_, _)
TotalSalary(pv, R) ==
    IF R = {} THEN 0
    ELSE LET c == CHOOSE x \in R : TRUE
         IN  pv[c].salary + TotalSalary(pv, R \ {c})

RECURSIVE TotalPoints(_, _)
TotalPoints(pv, R) ==
    IF R = {} THEN 0
    ELSE LET c == CHOOSE x \in R : TRUE
         IN  pv[c].points + TotalPoints(pv, R \ {c})

Role(pv, R, roles) == {c \in R : pv[c].role \in roles}

\* a legal roster: a set of candidates that meets every roster requirement
LegalRoster(pv, R, maxPerTeam) ==
    /\ Cardinality(R) = 7
    /\ Cardinality(Role(pv, R, {"QB"})) = 1
    /\ Cardinality(Role(pv, R, {"DEF"})) = 1
    /\ Cardinality(Role(pv, R, {"WR", "RB", "TE"})) = 5
    /\ Cardinality(Role(pv, R, {"WR"})) >= 2
    /\ Cardinality(Role(pv, R, {"RB"})) >= 2
    /\ TotalSalary(pv, R) <= 70000
    /\ \A c \in R :
         Cardinality({d \in R : pv[d].team = pv[c].team}) <= maxPerTeam

LegalRosters(pv, maxPerTeam) ==
    {R \in SUBSET (DOMAIN pv) : LegalRoster(pv, R, maxPerTeam)}

\* the ids of a lineup's entries, and whether no id occurs twice
EntryIds(lineup) == {lineup.players[k].id : k \in DOMAIN lineup.players}
Distinct(lineup) == Cardinality(EntryIds(lineup)) = Len(lineup.players)

\* the legal rosters that hold every locked candidate and otherwise only
\* candidates of Available
LegalCompletions(pv, maxPerTeam) ==
    {R \in LegalRosters(pv, maxPerTeam) :
        LockedIds \subseteq R /\ (R \ LockedIds) \subseteq AvailableIds}

RECURSIVE BaseSum(_, _, _)
\* the sum, over the first n entries of a lineup, of the projected points
\* the entry's candidate has in the pool
BaseSum(pv, entries, n) ==
    IF n = 0 THEN 0
    ELSE BaseSum(pv, entries, n - 1) + pv[entries[n].id].points

\* a lineup was returned by a run without captain search
PlainReturned ==
    pc = "done" /\ outcome = "lineup" /\ result.captain_id = 0
\* a lineup was returned by captain search with a captain set
CaptainReturned ==
    pc = "done" /\ outcome = "lineup" /\ result.captain_id # 0

---------------------------------------------------------------------------
(* Claims about the Roster Solver *)

\* C1: with no locked candidates and a legal roster in the pool, the
\* lineup returned by _generate_lineup_standard has a total of projected
\* points that no legal roster of the pool exceeds.
C1_StandardOptimal ==
    (pc = "done" /\ ~use_captain /\ Len(locked_players) = 0)
    => \A pv \in {Pool} : \A legal \in {LegalRosters(pv, max_players_from_team)} :
         legal # {}
         => /\ outcome = "lineup"
            /\ Distinct(result)
            /\ \A R \in legal :
                 TotalPoints(pv, R) <= TotalPoints(pv, EntryIds(result))
            /\ result.projected_points
                 = Round2(TotalPoints(pv, EntryIds(result)))

\* a lineup was returned although some legal roster has fewer points
C1_Witness ==
    /\ pc = "done" /\ ~use_captain /\ Len(locked_players) = 0
    /\ outcome = "lineup"
    /\ \E R \in LegalRosters(Pool, max_players_from_team) :
         TotalPoints(Pool, R) < TotalPoints(Pool, EntryIds(result))

\* C2: with no locked candidates, every lineup _generate_lineup_standard
\* returns is a legal roster: 7 candidates, salary within the cap, 1 QB,
\* 1 DEF, 5 of WR/RB/TE with at least 2 WR and 2 RB, at most maxPerTeam
\* candidates of one team.
C2_StandardLegal ==
    Len(locked_players) = 0
    => /\ outcome = "lineup"
          => /\ Distinct(result)
             /\ LegalRoster(Pool, EntryIds(result), max_players_from_team)
             /\ result.total_salary <= 70000
       /\ best_lineup # NoLineup
          => /\ Distinct(best_lineup)
             /\ LegalRoster(Pool, EntryIds(best_lineup), max_players_from_team)
             /\ best_lineup.total_salary <= 70000

\* a returned lineup in which one team has as many candidates as allowed,
\* while the pool holds more candidates of that team
C2_Witness ==
    /\ PlainReturned /\ Len(locked_players) = 0
    /\ \E t \in {"A", "B", "C"} :
         /\ Cardinality({c \in EntryIds(result) : Pool[c].team = t})
              = max_players_from_team
         /\ Cardinality({c \in DOMAIN Pool : Pool[c].team = t})
              > max_players_from_team

---------------------------------------------------------------------------
(* Claims about captain search *)

\* C3: a lineup returned with a captain has a total equal to the sum of
\* the pool's projected points of its candidates plus captainBonusPoints:
\* the captain's score counts twice, every other score once.
C3_CaptainTotal ==
    (CaptainReturned /\ use_captain)
    => \A pv \in {Pool} :
         result.projected_points
           = BaseSum(pv, result.players, Len(result.players))
             + result.captain_bonus_points

\* C4: the captain of a returned lineup is one of its entries and is not
\* a DEF.
C4_CaptainIsMember ==
    CaptainReturned
    => \E k \in DOMAIN result.players :
         /\ result.players[k].id = result.captain_id
         /\ result.players[k].position # "DEF"

\* the best total of a roster and a captain among its non-DEF members
CaptainOptimum(pv, legal) ==
    BestOf(UNION {{TotalPoints(pv, R) + pv[c].points :
                      c \in {x \in R : pv[x].role # "DEF"}} : R \in legal})

\* C5: with no locked candidates and a legal roster in the pool, captain
\* search returns a legal roster and a captain among its non-DEF members
\* whose total (base points of the roster plus base points of the captain)
\* is the largest any legal roster and captain have; a lineup returned
\* without a captain has that total by itself.
C5_GlobalCaptainOptimum ==
    (pc = "done" /\ use_captain /\ Len(locked_players) = 0)
    => \A pv \in {Pool} : \A legal \in {LegalRosters(pv, max_players_from_team)} :
         legal # {}
         => /\ outcome = "lineup"
            /\ EntryIds(result) \in legal
            /\ IF result.captain_id = 0
               THEN TotalPoints(pv, EntryIds(result))
                      = CaptainOptimum(pv, legal)
               ELSE /\ result.captain_id \in EntryIds(result)
                    /\ pv[result.captain_id].role # "DEF"
                    /\ TotalPoints(pv, EntryIds(result))
                         + pv[result.captain_id].points
                         = CaptainOptimum(pv, legal)

\* the objective of the sub-solve for candidate c: the points of a roster
\* with the points of c counted twice
Perturbed(pv, R, c) ==
    TotalPoints(pv, R) + (IF c \in R THEN pv[c].points ELSE 0)

\* C6: every sub-solve of captain search, locked candidates or not, is a
\* run of the base solver over the whole pool with the points of the
\* candidate under test doubled: the lineup recorded for a candidate is a
\* legal roster of the pool, and its total is the largest the doubled
\* objective takes on the legal rosters of the pool.
C6_SubSolveUnrestricted ==
    best_lineup # NoLineup
    => \A pv \in {Pool} : \A legal \in {LegalRosters(pv, max_players_from_team)} :
         /\ EntryIds(best_lineup) \in legal
         /\ best_total_points
              = Round2(BestOf({Perturbed(pv, R, best_captain.id) : R \in legal}))

---------------------------------------------------------------------------
(* Claims about the Locked-Slot Partitioner *)

\* the lineups _generate_lineup_with_locked_players has returned
PartitionerLineups ==
    IF Len(locked_players) = 0 THEN {}
    ELSE (IF outcome = "lineup" THEN {result} ELSE {})
         \cup (IF best_lineup # NoLineup THEN {best_lineup} ELSE {})

\* C7: a lineup returned by the Locked-Slot Partitioner holds every locked
\* candidate exactly once, with id, role, team, salary and projected
\* points unchanged; its other entries are distinct candidates of
\* Available, unchanged too, and fill the slots the locked ones leave.
C7_LockedInvariance ==
    \A lineup \in PartitionerLineups : \A pv \in {Pool} :
        /\ \A j \in DOMAIN locked_players :
             /\ Cardinality({k \in DOMAIN lineup.players :
                    lineup.players[k].id = locked_players[j].id}) = 1
             /\ lineup.players[j].id = locked_players[j].id
        /\ Distinct(lineup)
        /\ EntryIds(lineup) \ LockedIds \subseteq AvailableIds
        /\ Len(lineup.players) =
             (IF Len(locked_players) > 7 THEN Len(locked_players) ELSE 7)
        /\ \A k \in DOMAIN lineup.players :
             LET e == lineup.players[k]
             IN  /\ e.position = pv[e.id].role
                 /\ e.team = pv[e.id].team
                 /\ e.salary = pv[e.id].salary
                 /\ e.projected_points = pv[e.id].points

\* the partitioner returned a lineup of locked candidates and of
\* candidates it chose from Available
C7_Witness ==
    /\ pc = "done" /\ ~use_captain /\ outcome = "lineup"
    /\ Len(locked_players) \in 1..6
    /\ Len(result.players) = 7
    /\ \E k \in DOMAIN result.players : result.players[k].projected_points > 0

\* C8: no legal roster that holds all locked candidates and otherwise
\* only candidates of Available has more points than the lineup the
\* partitioner returns.
C8_LockedOptimal ==
    (pc = "done" /\ ~use_captain /\ Len(locked_players) > 0
        /\ outcome = "lineup")
    => \A pv \in {Pool} :
         \A R \in LegalCompletions(pv, max_players_from_team) :
            TotalPoints(pv, R) <= BaseSum(pv, result.players, Len(result.players))

\* C9: whenever some legal roster holds every locked candidate and
\* otherwise only candidates of Available, the partitioner returns a
\* lineup.
C9_LockedFeasible ==
    (pc = "done" /\ ~use_captain /\ Len(locked_players) > 0)
    => (LegalCompletions(Pool, max_players_from_team) # {}
        => outcome = "lineup")

\* the locked candidates cost more than the cap together
OverCap == SeqSalary(locked_players, Len(locked_players)) > 70000

\* C10 as stated: a locked set of any size up to the roster size whose
\* salary exceeds the cap makes the partitioner fail with Infeasible.
C10_OverCapAnySize ==
    (pc = "done" /\ Len(locked_players) \in 1..7 /\ OverCap)
    => (outcome = "Infeasible" /\ result = NoLineup)

\* C10 as amended: a locked set that leaves at least one slot open and
\* whose salary exceeds the cap makes the partitioner fail with
\* Infeasible; a locked set that fills the roster is returned as a lineup
\* that is not valid.
C10_OverCapOpenSlots ==
    (pc = "done" /\ Len(locked_players) > 0 /\ OverCap)
    => IF Len(locked_players) < 7
       THEN outcome = "Infeasible" /\ result = NoLineup
       ELSE outcome = "lineup" /\ ~result.is_valid

\* the partitioner failed on a locked set over the cap with open slots
C10_Witness ==
    /\ pc = "done" /\ ~use_captain
    /\ Len(locked_players) \in 1..6 /\ OverCap
    /\ outcome = "Infeasible"

---------------------------------------------------------------------------
(* Claims about the pool across a call *)

\* C11: no step of generate_lineup changes the pool: teams, locked and
\* available players stay as they are, and self.players changes only to
\* hold the modified pool during one sub-solve (the original being kept
\* in original_players) and is restored when the sub-solve ends, so that
\* outside a sub-solve every candidate object, its projected points and
\* its is_captain flag are as before the call.
C11_PoolUnchanged ==
    [][/\ UNCHANGED <<teams, locked_players, available_players>>
       /\ BasePlayers' = BasePlayers]_vars

\* the ids of the candidates the request being served supplies
RequestIds ==
    {request.players[k].id : k \in DOMAIN request.players}
    \cup {DefId(request.teams[k].id) : k \in DOMAIN request.teams}

\* C12: while a request is served and once it is answered, the pool of
\* the optimizer (players, locked and available players, DEF teams) and
\* the lineup returned hold only candidates that the request supplied.
C12_NoLeak ==
    (pc # "waiting" /\ outcome # "bad_request")
    => /\ DOMAIN Pool \subseteq RequestIds
       /\ LockedIds \cup AvailableIds \subseteq RequestIds
       /\ outcome = "lineup" => EntryIds(result) \subseteq RequestIds

---------------------------------------------------------------------------
(* Claims about the course of captain search *)

\* some candidate's perturbed solve succeeds on the pool
SomeSubSolveSucceeds ==
    \E k \in DOMAIN captain_candidates :
        \E run \in WithoutCaptainRuns(
                       TempPlayers(BasePlayers, captain_candidates[k]),
                       teams, locked_players, available_players,
                       max_players_from_team) :
            ~run.failed

\* C13: a sub-solve, failed or not, never ends captain search: the loop
\* goes on with the next candidate and what was recorded as best is kept
\* or improved; when the search ends, the lineup recorded as best is the
\* one returned; and when no candidate's sub-solve succeeds (or there is
\* no candidate) generate_lineup ends with Infeasible and no lineup.
C13_SubSolveFailuresSkipped ==
    /\ []((pc = "done" /\ use_captain)
          => \/ outcome = "Infeasible" /\ result = NoLineup
             \/ outcome = "lineup" /\ SomeSubSolveSucceeds)
    /\ [][/\ pc = "sub_solve"
             => /\ pc' = "captain_loop" /\ ci' = ci + 1
                /\ outcome' = "none" /\ result' = NoLineup
                /\ best_total_points' >= best_total_points
                /\ best_lineup # NoLineup => best_lineup' # NoLineup
          /\ (pc = "captain_loop" /\ pc' = "done" /\ best_lineup # NoLineup)
             => /\ outcome' = "lineup"
                /\ EntryIds(result') = EntryIds(best_lineup)]_vars

\* captain search went through every candidate although the sub-solves
\* failed, and ended with Infeasible
C13_Witness ==
    /\ pc = "done" /\ use_captain /\ outcome = "Infeasible"
    /\ Len(captain_candidates) > 1
    /\ ci = Len(captain_candidates) + 1
    /\ ~SomeSubSolveSucceeds

\* C15: a lineup returned with a captain names as captain_id the
\* candidate recorded as best captain, a candidate of the pool, and its
\* captain_bonus_points are the projected points that candidate has in
\* the pool, not the doubled value of the sub-solve.
C15_BonusUndoubled ==
    CaptainReturned
    => \A pv \in {Pool} :
         /\ result.captain_id = best_captain.id
         /\ result.captain_id \in DOMAIN pv
         /\ result.captain_bonus_points = pv[result.captain_id].points

\* a captain with a score above 0 was returned, and the entry of the
\* lineup for it carries the doubled score
C15_Witness ==
    /\ CaptainReturned
    /\ result.captain_bonus_points > 0
    /\ \E k \in DOMAIN result.players :
         /\ result.players[k].id = result.captain_id
         /\ result.players[k].projected_points
              = 2 * result.captain_bonus_points

\* C16: during captain search the best lineup and captain recorded so
\* far are replaced only by the candidate under test and only when the
\* total recorded rises strictly, so of candidates with equal totals the
\* one evaluated first stays; the captain recorded is a candidate already
\* evaluated, and it is the captain returned.
C16_StrictImprovement ==
    /\ [](best_captain # NoPlayer
          => \E k \in 1..(ci - 1) :
                /\ k \in DOMAIN captain_candidates
                /\ captain_candidates[k].id = best_captain.id)
    /\ [][/\ pc = "sub_solve"
             => \/ UNCHANGED <<best_lineup, best_captain, best_total_points>>
                \/ /\ best_total_points' > best_total_points
                   /\ best_captain' = captain_candidates[ci]
                   /\ best_lineup'.projected_points = best_total_points'
          /\ (pc = "captain_loop" /\ pc' = "done" /\ best_lineup # NoLineup)
             => result'.captain_id = best_captain.id]_vars

\* the first candidate is recorded as captain although the sub-solve of a
\* later candidate, already evaluated, gives the same total
C16_Witness ==
    /\ pc = "captain_loop" /\ ci > 2
    /\ best_total_points > 0
    /\ best_captain.id = captain_candidates[1].id
    /\ \E k \in 2..(ci - 1) :
         \E run \in WithoutCaptainRuns(
                        TempPlayers(players, captain_candidates[k]),
                        teams, locked_players, available_players,
                        max_players_from_team) :
            ~run.failed /\ run.lineup.projected_points = best_total_points

---------------------------------------------------------------------------
(* Claims about pools and feeds *)

\* no candidate of the pool is a QB
ZeroQB == \A pv \in {Pool} : \A c \in DOMAIN pv : pv[c].role # "QB"

ListedPlayers ==
    {BasePlayers[k] : k \in DOMAIN BasePlayers}
    \cup {locked_players[k] : k \in DOMAIN locked_players}
    \cup {available_players[k] : k \in DOMAIN available_players}

\* C18: every candidate of the solver pool, in players, locked_players,
\* available_players and teams, has a salary above 0, and every player a
\* role among QB, RB, WR, TE and DEF.
C18_PoolInvariant ==
    /\ \A p \in ListedPlayers :
         p.salary > 0 /\ p.position \in {"QB", "RB", "WR", "TE", "DEF"}
    /\ \A k \in DOMAIN teams : teams[k].salary > 0

---------------------------------------------------------------------------
(* Claims about the lineup record *)

\* the lineups that a solve path has returned: the result of the call and
\* the lineup captain search holds as best
ReturnedLineups ==
    (IF outcome = "lineup" THEN {result} ELSE {})
    \cup (IF best_lineup # NoLineup THEN {best_lineup} ELSE {})

RECURSIVE EntrySalaries(_, _)
\* the sum of the salaries of the first n entries of a lineup
EntrySalaries(entries, n) ==
    IF n = 0 THEN 0 ELSE EntrySalaries(entries, n - 1) + entries[n].salary

\* C17: in every lineup a solve path returns, total_salary is the sum of
\* the entries' salaries, remaining_cap is the cap of 70000 minus
\* total_salary, and is_valid says that total_salary is within the cap
\* and that the lineup has exactly 7 entries.
C17_ResultAssembly ==
    \A lineup \in ReturnedLineups :
        /\ lineup.total_salary
             = EntrySalaries(lineup.players, Len(lineup.players))
        /\ lineup.salary_cap = 70000
        /\ lineup.remaining_cap = 70000 - lineup.total_salary
        /\ lineup.is_valid
             <=> (lineup.total_salary <= 70000 /\ Len(lineup.players) = 7)

\* a lineup that is not valid was returned: locked players that fill the
\* roster and cost more than the cap
C17_Witness ==
    /\ pc = "done" /\ outcome = "lineup"
    /\ ~result.is_valid
    /\ result.total_salary > 70000
    /\ result.remaining_cap < 0

\* the lineups returned by the partitioner for locked players that fill
\* the seven slots exactly: the result of a call without captain search,
\* and the best lineup held while captain search runs
FullRosterLineups ==
    IF Len(locked_players) # 7 THEN {}
    ELSE (IF pc = "done" /\ ~use_captain /\ outcome = "lineup"
          THEN {result} ELSE {})
         \cup (IF pc # "done" /\ best_lineup # NoLineup
               THEN {best_lineup} ELSE {})

\* what C19 says of such a lineup apart from its points
FullRosterReturned(lineup) ==
    /\ lineup.players = locked_players
    /\ lineup.total_salary
         = EntrySalaries(locked_players, Len(locked_players))
    /\ lineup.remaining_cap = 70000 - lineup.total_salary
    /\ lineup.is_valid <=> lineup.total_salary <= 70000

\* the sum of the projected points of the locked players
LockedPoints == TotalPoints(Pool, LockedIds)

\* C19 as stated: when the locked candidates fill the seven slots, the
\* partitioner returns a lineup (never a failure) whose players are the
\* locked candidates themselves, with the salary and the points of the
\* locked aggregates and is_valid from the usual check.
C19_FullRosterExact ==
    /\ (pc = "done" /\ ~use_captain /\ Len(locked_players) = 7)
       => outcome = "lineup"
    /\ \A lineup \in FullRosterLineups :
         /\ FullRosterReturned(lineup)
         /\ lineup.projected_points = LockedPoints

\* C19 as amended: the same, with the points of the lineup being the
\* points of the locked candidates rounded to two decimals.
C19_FullRosterRounded ==
    /\ (pc = "done" /\ ~use_captain /\ Len(locked_players) = 7)
       => outcome = "lineup"
    /\ \A lineup \in FullRosterLineups :
         /\ FullRosterReturned(lineup)
         /\ lineup.projected_points = Round2(LockedPoints)

\* seven locked players with points were returned as the lineup although
\* they are no legal roster
C19_Witness ==
    /\ pc = "done" /\ ~use_captain /\ Len(locked_players) = 7
    /\ outcome = "lineup" /\ result.is_valid
    /\ LockedPoints > 0
    /\ ~LegalRoster(Pool, EntryIds(result), max_players_from_team)

\* the pool has exactly seven candidates, none locked, and they make up
\* a legal roster
ExactFit ==
    /\ Len(locked_players) = 0
    /\ \A pv \in {Pool} :
         /\ Cardinality(DOMAIN pv) = 7
         /\ LegalRoster(pv, DOMAIN pv, max_players_from_team)

\* C20: on a pool of exactly seven candidates that make up a legal
\* roster, the Roster Solver returns those seven, each once, with
\* is_valid true and remaining_cap the cap minus the sum of their
\* salaries.
C20_ExactFit ==
    (pc = "done" /\ ExactFit)
    => /\ outcome = "lineup"
       /\ Distinct(result)
       /\ EntryIds(result) = DOMAIN Pool
       /\ result.is_valid
       /\ result.remaining_cap = SalaryCap - TotalSalary(Pool, DOMAIN Pool)

\* the solver returned a lineup for a pool of seven
C20_Witness ==
    /\ pc = "done" /\ ~use_captain /\ ExactFit
    /\ outcome = "lineup"
    /\ Len(result.players) = 7
    /\ result.remaining_cap > 0

\* the lineups the partitioner returned after a residual solve
ResidualLineups ==
    IF Len(locked_players) >= RosterSize THEN {} ELSE PartitionerLineups

\* the number of entries of a lineup with a position in P
EntryCount(lineup, P) ==
    Cardinality({k \in DOMAIN lineup.players :
                    lineup.players[k].position \in P})

\* C24: a lineup the Locked-Slot Partitioner returns after a residual
\* solve has exactly 7 entries, a total salary within the cap, exactly 1
\* QB, exactly 1 DEF, exactly 5 entries of WR/RB/TE with at least 2 WR and
\* at least 2 RB, and no entry chosen from Available has another role.
C24_ResidualSound ==
    \A lineup \in ResidualLineups :
        /\ Len(lineup.players) = RosterSize
        /\ lineup.total_salary <= SalaryCap
        /\ EntrySalaries(lineup.players, Len(lineup.players)) <= SalaryCap
        /\ EntryCount(lineup, {"QB"}) = 1
        /\ EntryCount(lineup, {"DEF"}) = 1
        /\ EntryCount(lineup, {"WR", "RB", "TE"}) = FlexTotal
        /\ EntryCount(lineup, {"WR"}) >= 2
        /\ EntryCount(lineup, {"RB"}) >= 2
        /\ \A k \in DOMAIN lineup.players :
             lineup.players[k].id \notin LockedIds
             => lineup.players[k].position
                  \in {"QB", "DEF", "WR", "RB", "TE"}

\* a residual solve returned a lineup while a kicker with points was
\* among the available players
C24_Witness ==
    /\ pc = "done" /\ ~use_captain /\ outcome = "lineup"
    /\ Len(locked_players) \in 1..6
    /\ \E k \in DOMAIN available_players :
         /\ available_players[k].position = "K"
         /\ available_players[k].projected_points > 0

---------------------------------------------------------------------------
(* Claims about the partition of the pool *)

\* the ids of a list of players
IdsOf(ps) == {ps[k].id : k \in DOMAIN ps}

\* C25: locked_players and available_players are disjoint and together
\* hold exactly the players of self.players; locked_players holds exactly
\* the loaded players that are flagged isLocked and are in the current
\* lineup; a record flagged isLocked that is not in the current lineup is
\* in neither list; and no option of the residual solve is a locked
\* player.
C25_Partition ==
    /\ IdsOf(locked_players) \cap IdsOf(available_players) = {}
    /\ IdsOf(locked_players) \cup IdsOf(available_players) = IdsOf(players)
    /\ Len(locked_players) + Len(available_players) = Len(players)
    /\ IdsOf(locked_players)
         = {p.id : p \in {q \in {BasePlayers[j] : j \in DOMAIN BasePlayers} :
                              q.is_locked /\ q.is_current_lineup}}
    /\ \A k \in DOMAIN request.players :
         (request.players[k].isLocked
          /\ ~request.players[k].is_current_lineup)
         => request.players[k].id
              \notin IdsOf(locked_players) \cup IdsOf(available_players)
    /\ Len(locked_players) \in 1..(RosterSize - 1)
       => \A opts \in {AvailableOptions(locked_players, available_players,
                                        teams)} :
            \A k \in DOMAIN opts : opts[k].id \notin IdsOf(locked_players)
    /\ \A lineup \in ResidualLineups :
         \A k \in DOMAIN lineup.players :
            k > Len(locked_players)
            => lineup.players[k].id \notin IdsOf(locked_players)

\* a pool with locked players, available players and a record that is
\* locked outside the current lineup, for which the residual solve
\* returned a lineup
C25_Witness ==
    /\ pc = "done" /\ outcome = "lineup"
    /\ Len(locked_players) \in 1..(RosterSize - 1)
    /\ Len(available_players) > 0
    /\ \E k \in DOMAIN request.players :
         /\ request.players[k].isLocked
         /\ ~request.players[k].is_current_lineup

---------------------------------------------------------------------------
(* Claims about the returned records *)

\* format_lineup_for_api: the dictionary sent for a lineup
FormatLineupForApi(lineup) ==
    [players |-> [k \in DOMAIN lineup.players |->
                    [id |-> lineup.players[k].id,
                     position |-> lineup.players[k].position,
                     team |-> lineup.players[k].team,
                     salary |-> lineup.players[k].salary,
                     projected_points |-> lineup.players[k].projected_points,
                     is_captain |-> lineup.players[k].is_captain]],
     total_salary |-> lineup.total_salary,
     projected_points |-> lineup.projected_points,
     remaining_cap |-> lineup.remaining_cap,
     salary_cap |-> lineup.salary_cap,
     lineup_score |-> lineup.projected_points,
     is_valid |-> lineup.is_valid,
     captain_id |-> lineup.captain_id,
     captain_bonus_points |-> lineup.captain_bonus_points]

\* C26: in every lineup generate_lineup returns, and in its formatted
\* output, each player record (the captain's too) carries the projected
\* points its candidate has in the loaded pool.
C26_BaseScoresOnly ==
    (pc = "done" /\ outcome = "lineup")
    => \A pv \in {Pool} : \A out \in {FormatLineupForApi(result)} :
         \A k \in DOMAIN out.players :
            out.players[k].projected_points = pv[out.players[k].id].points

---------------------------------------------------------------------------
(* Claims about generate_multiple_lineups *)

\* the list is never longer than count, and its lineups have one total
MultipleBounded ==
    /\ Len(lineups) <= count
    /\ \A j, k \in DOMAIN lineups :
         lineups[j].projected_points = lineups[k].projected_points
    /\ caller = "returned"
       => \/ Len(lineups) = count
          \/ outcome = "Infeasible"

\* the loop is left only after count lineups or at a failed solve, and a
\* failed solve leaves the list as it is
MultipleStops ==
    (caller = "loop" /\ caller' = "returned")
    => \/ outcome = "lineup" /\ lineups' = Append(lineups, result)
                             /\ Len(lineups') = count
       \/ outcome = "Infeasible" /\ lineups' = lineups

---------------------------------------------------------------------------
(* Claims about the projections *)

\* the map was returned
ProjectionsReturned == item_no > Len(data_json)

\* the items with an id, by their index in the list
ItemsWithId == {k \in DOMAIN data_json : data_json[k].id # 0}

\* the games an item has on record: the points by gameweek number
GamesOf(item) ==
    LET points == StatsOf(item, data_type).points
    IN  IF points.kind # "dict" THEN {}
        ELSE {[week |-> IntOf(g.week), points |-> g.points] :
                g \in {points.gws[k] :
                         k \in {j \in DOMAIN points.gws :
                                  IsDigit(points.gws[j].week)}}}

\* the game with the highest gameweek number
LatestGame(G) == CHOOSE g \in G : \A h \in G : h.week <= g.week
\* the sum of the points of the two games before the latest; with two
\* games on record the earlier game counts twice
PreviousTwo(G) ==
    LET rest == G \ {LatestGame(G)}
        second == LatestGame(rest)
    IN  IF Cardinality(G) >= 3
        THEN second.points + LatestGame(rest \ {second}).points
        ELSE second.points + second.points

\* C21: for every item with at least 3 gameweeks on record the map holds
\* 0.5 * (points of the most recent game) + 0.3 * (average of the two
\* games before it) + 0.2 * avgPoints, rounded to two decimals.
C21_WeightedFormula ==
    ProjectionsReturned
    => \A k \in ItemsWithId : \A G \in {GamesOf(data_json[k])} :
         Cardinality(G) >= 3
         => projection_map[data_json[k].id]
              = RoundFine(10 * LatestGame(G).points + 3 * PreviousTwo(G)
                          + 4 * StatsOf(data_json[k], data_type).avgPoints)

\* C22: for every item with fewer than 2 games on record the map holds
\* the site's projectedScores rounded to two decimals, and the map has one
\* entry for every item with an id and no other entry.
C22_Fallback ==
    ProjectionsReturned
    => /\ DOMAIN projection_map = {data_json[k].id : k \in ItemsWithId}
       /\ \A k \in ItemsWithId :
            Cardinality(GamesOf(data_json[k])) < 2
            => projection_map[data_json[k].id]
                 = Round2(StatsOf(data_json[k], data_type).projectedScores)

\* C23: whatever the order of the keys in the gws map, the weighted
\* projection takes the game with the highest gameweek number as the last
\* game and the two games with the next highest numbers as the previous
\* two; with two games on record the earlier one is the previous two.
C23_Chronological ==
    ProjectionsReturned
    => \A k \in ItemsWithId : \A G \in {GamesOf(data_json[k])} :
         Cardinality(G) >= 2
         => projection_map[data_json[k].id]
              = RoundFine(6 * LatestGame(G).points + 5 * PreviousTwo(G)
                          + 4 * StatsOf(data_json[k], data_type).avgPoints)

\* a map was returned for an item with three games on record whose gws
\* map lists gameweek 10 first and gameweek 1 last, with different points
C23_Witness ==
    /\ ProjectionsReturned
    /\ \E k \in ItemsWithId : \E stats \in {StatsOf(data_json[k], data_type)} :
         /\ stats.points.kind = "dict"
         /\ Cardinality(GamesOf(data_json[k])) = 3
         /\ stats.points.gws[1].week = "10"
         /\ stats.points.gws[Len(stats.points.gws)].week = "1"
         /\ stats.points.gws[1].points
              # stats.points.gws[Len(stats.points.gws)].points
         /\ data_json[k].id \in DOMAIN projection_map

---------------------------------------------------------------------------
(* The PyDFS variant *)

\* the pool as load_players_from_json and load_teams_from_json built it
\* for the request served
PydfsLoaded == PydfsLoad(request)
\* the original fppg of a player of the pool
OriginalFppg(id) == PlayerOf(PydfsLoaded, id).fppg
RECURSIVE OriginalSum(_, _)
\* the sum of the original fppg of the first n reported players
OriginalSum(reported, n) ==
    IF n = 0 THEN 0
    ELSE OriginalSum(reported, n - 1) + OriginalFppg(reported[n].id)

\* C27: in the response of CFLPydfsOptimizer.optimize_from_request,
\* captain_bonus_points is the original fppg of the chosen captain, the
\* projected_points of every player is its original fppg, and the
\* projected_points of the lineup is the sum of the 7 original fppg plus
\* that bonus (each as reported, rounded to 2 decimals).
C27_PydfsCaptainAccounting ==
    (pydfs_pc = "done" /\ response.kind = "lineup") =>
        /\ Len(response.players) = 7
        /\ response.captain_bonus_points =
               Round2(OriginalFppg(response.captain_id))
        /\ \A k \in DOMAIN response.players :
               response.players[k].projected_points =
                   Round2(OriginalFppg(response.players[k].id))
        /\ response.projected_points =
               Round2(OriginalSum(response.players, 7)
                      + OriginalFppg(response.captain_id))

\* the players of the pool whose fppg is not the loaded one
Changed ==
    {k \in DOMAIN all_players : all_players[k] # PydfsLoaded[k]}

\* C28: outside the sub-solves of get_best_lineup, and after it returned,
\* every player of the pool has the fppg it was loaded with; during the
\* sub-solve for a candidate exactly that player has its fppg doubled; the
\* pool is restored after every candidate, also when its solve raised.
C28_PoolRestored ==
    /\ pydfs_pc \in {"loop", "done"} => all_players = PydfsLoaded
    /\ pydfs_pc = "solve" =>
          /\ DOMAIN all_players = DOMAIN PydfsLoaded
          /\ Cardinality(Changed) = 1
          /\ \A k \in Changed :
                /\ all_players[k].id = candidates[captain_no]
                /\ all_players[k] =
                       [PydfsLoaded[k] EXCEPT !.fppg = 2 * @]

\* get_best_lineup returned a lineup after a sub-solve per candidate
C28_Witness ==
    /\ pydfs_pc = "done"
    /\ response.kind = "lineup"
    /\ Len(candidates) >= 5
    /\ captain_no = Len(candidates) + 1
    /\ all_players = PydfsLoaded

---------------------------------------------------------------------------
(* The greedy backup variant *)

\* the points of the non-DEF players of a lineup
NonDefPoints(lineup) ==
    {lineup[k].projected_points :
        k \in {j \in DOMAIN lineup : lineup[j].position # "DEF"}}

\* a lineup and the captain designated in it meet the roster rules
GreedyLineupOk(lineup, captain_id) ==
    /\ Len(lineup) = 7
    /\ Cardinality({lineup[k].id : k \in DOMAIN lineup}) = 7
    /\ \A k \in DOMAIN lineup :
          \E j \in DOMAIN (greedy_players \o greedy_teams) :
              (greedy_players \o greedy_teams)[j].id = lineup[k].id
    /\ GreedySalary(lineup, 7) <= 70000
    /\ PositionCount(lineup, "QB") = 1
    /\ PositionCount(lineup, "DEF") = 1
    /\ PositionCount(lineup, "RB") >= 2
    /\ PositionCount(lineup, "WR") >= 2
    /\ PositionCount(lineup, "RB") + PositionCount(lineup, "WR")
           + PositionCount(lineup, "TE") = 5
    /\ \E k \in DOMAIN lineup :
          /\ lineup[k].id = captain_id
          /\ lineup[k].position # "DEF"
          /\ \A p \in NonDefPoints(lineup) : p <= lineup[k].projected_points
          /\ \A j \in 1..(k - 1) :
                lineup[j].position # "DEF" =>
                    lineup[j].projected_points < lineup[k].projected_points

\* what get_best_lineup returned is a lineup that meets the rules, and the
\* response, once there, is of that lineup, or the error
GreedyReturnsOk ==
    /\ greedy_pc = "returned" =>
          GreedyLineupOk(greedy_lineup, greedy_captain_id)
    /\ (greedy_pc = "done" /\ greedy_response.kind = "lineup") =>
          /\ GreedyLineupOk(greedy_lineup, greedy_captain_id)
          /\ greedy_response.captain_id = greedy_captain_id
          /\ [k \in 1..7 |-> greedy_response.players[k].id]
                 = [k \in 1..7 |-> greedy_lineup[k].id]
    /\ (greedy_pc = "done" /\ greedy_response.kind # "lineup") =>
          greedy_response =
              [kind |-> "ValueError", message |-> "No valid lineup found"]

\* a call of get_best_lineup that returned no lineup ends in the error,
\* and only such a call
GreedyFailsOnNone ==
    /\ greedy_pc = "none" => greedy_response'.kind = "ValueError"
    /\ greedy_pc = "returned" => greedy_response'.kind = "lineup"

\* C30: whenever get_best_lineup of the greedy optimizer returns a lineup,
\* it has 7 distinct candidates with total salary <= 70000, 1 QB, 1 DEF,
\* at least 2 RB, at least 2 WR and 5 candidates from RB, WR, TE, and its
\* captain is the earliest non-DEF member with the maximum projected
\* points among the non-DEF members; otherwise it returns no lineup and
\* optimize_from_request fails with "No valid lineup found".
C30_GreedyLineup == []GreedyReturnsOk /\ [][GreedyFailsOnNone]_vars

\* a lineup was returned whose captain is not its first non-DEF member,
\* under a cap that the cheapest flex player just meets
C30_Witness ==
    /\ greedy_pc = "done"
    /\ greedy_response.kind = "lineup"
    /\ greedy_response.total_salary = 70000
    /\ greedy_lineup[1].position # "DEF"
    /\ greedy_captain_id # greedy_lineup[1].id

=============================================================================
